---- MODULE Spec2Model ----
(***************************************************************************)
(* A model of the recommendation calculator of architecture-journey        *)
(* (backend/src/services/RecommendationEngine.ts).                         *)
(*                                                                         *)
(* calculate(tree, answers) runs four sub-steps in sequence: path          *)
(* validation, score accumulation, winner determination with tie-breaking  *)
(* and confidence classification, and then looks up the winner's Result.   *)
(* Each sub-step is one action; a throw ends the call in pc = "thrown".    *)
(*                                                                         *)
(* Data domain: ids are non-empty strings, question ids are unique within  *)
(* a tree and option ids are unique within a question (types/index.ts).    *)
(* Dangling, self-referencing and cyclic nextQuestionId links, empty score *)
(* mappings, empty question lists and outcome keys without a Result are    *)
(* all part of the domain.                                                 *)
(*                                                                         *)
(* The second half models the load-time side: DecisionTreeValidator        *)
(* (validate and its six passes, one action per pass) and the tree store   *)
(* of DecisionTreeService (loadTrees, reload, getTree, getAllTrees).  A    *)
(* file of the trees directory is held as the JSON value it parses to; a   *)
(* property an object lacks is a field its record lacks.  Property values  *)
(* have the types of types/index.ts where present (strings, arrays,        *)
(* objects), except score values, which may be non-numbers.                *)
(***************************************************************************)
EXTENDS Integers, Sequences, FiniteSets, TLC

VARIABLES
    tree,        \* the DecisionTree handed to calculate
    answers,     \* the Answer[] handed to calculate
    pc,          \* the sub-step calculate is about to run
    scores,      \* const scores (RecommendationEngine.ts:22)
    winner,      \* const winner (RecommendationEngine.ts:25)
    tieBreaker,  \* const tieBreaker (RecommendationEngine.ts:25)
    confidence,  \* const confidence (RecommendationEngine.ts:28)
    error,       \* the Error calculate threw, if any
    result,      \* the RecommendationResult calculate returned, if any
    files,       \* the .json files of treesDirectory, in readdirSync order
    trees,       \* private trees: Map<string, DecisionTree> (DecisionTreeService.ts:23)
    fileIndex,   \* position of the for loop of loadTrees (DecisionTreeService.ts:44)
    svcPc,       \* where the service is: in the loop, inside validate, or idle
    response,    \* what the last getTree or getAllTrees call returned or threw
    rawTree,     \* the tree handed to validate
    vpc,         \* the pass validate is about to run
    errors,      \* const errors (DecisionTreeValidator.ts:19)
    warnings,    \* const warnings (DecisionTreeValidator.ts:20)
    validation,  \* what validate returned, or that it threw
    validations, \* per file read by the running or last load: what validate reported
    currentQuestionIndex, \* TreePage state (tree/[id]/page.tsx:19), zero-based
    pageAnswers, \* TreePage state `answers` (tree/[id]/page.tsx:20)
    pagePc,      \* what TreePage shows: a question, the submission, or it was left
    savedDecisions, \* the SavedDecision collection: its documents
    calls        \* the saveDecision and getResultBySlug calls in flight or ended

calcVars == <<tree, answers, pc, scores, winner, tieBreaker, confidence, error, result>>

validatorVars == <<rawTree, vpc, errors, warnings, validation>>

serviceVars == <<files, trees, fileIndex, svcPc, response, validations>>

loaderVars == <<validatorVars, serviceVars>>

pageVars == <<currentQuestionIndex, pageAnswers, pagePc>>

storeVars == <<savedDecisions, calls>>

vars == <<calcVars, loaderVars, pageVars, storeVars>>

(***************************************************************************)
(* Bounds of the model.                                                    *)
(***************************************************************************)
MaxAnswers == 3

(***************************************************************************)
(* JavaScript values.                                                      *)
(***************************************************************************)
\* null, as held by nextQuestionId and expectedQuestionId (no id is this string)
Null == "<null>"

\* an undefined winner / confidence (before the sub-step that sets it)
Undefined == "<undefined>"

\* an undefined tieBreaker: the property is absent from the result
NoTieBreaker == [defined |-> FALSE, text |-> <<>>]

Range(s) == {s[i] : i \in DOMAIN s}

(***************************************************************************)
(* ErrorCode (types/index.ts) and createError.                             *)
(***************************************************************************)
MISSING_ANSWERS == "MISSING_ANSWERS"

INVALID_ANSWER_PATH == "INVALID_ANSWER_PATH"

QUESTION_NOT_FOUND == "QUESTION_NOT_FOUND"

OPTION_NOT_FOUND == "OPTION_NOT_FOUND"

NO_RECOMMENDATION == "NO_RECOMMENDATION"

\* a plain Error carries no code property
NoCode == "<no code>"

NoError == [code |-> "<no error>", message |-> <<>>]

createError(code, message) == [code |-> code, message |-> message]

\* new Error(`Result not found for technology: ${winner}`)
plainError(message) == [code |-> NoCode, message |-> message]

(***************************************************************************)
(* Records: a Record<string, number> keeps its keys in insertion order, so *)
(* it is a sequence of [tech, points] entries with distinct keys.          *)
(***************************************************************************)
Entry(tech, points) == [tech |-> tech, points |-> points]

\* Object.keys(scores)
ObjectKeys(rec) == [i \in DOMAIN rec |-> rec[i].tech]

\* Object.values(scores)
ObjectValues(rec) == [i \in DOMAIN rec |-> rec[i].points]

HasKey(rec, tech) == \E i \in DOMAIN rec : rec[i].tech = tech

\* scores[tech] of a key the record holds; an absent key reads as undefined,
\* which only `scores[tech] || 0` ever does in the code, hence the 0
Get(rec, tech) ==
    IF HasKey(rec, tech)
    THEN rec[CHOOSE i \in DOMAIN rec : rec[i].tech = tech].points
    ELSE 0

(***************************************************************************)
(* The trees and answer lists calculate is called with.                    *)
(*                                                                         *)
(* The trees have the shape of the test suite's mockTree (q1 with opt1 and *)
(* opt2, q2 with opt3), cut to their first 0, 1 or 2 questions, with every *)
(* option's nextQuestionId drawn from NextChoices (in a one-question tree  *)
(* "q2" dangles) and one of the Scorings.                                  *)
(***************************************************************************)
Option(id, nextQuestionId, optScores) ==
    [id |-> id, nextQuestionId |-> nextQuestionId, scores |-> optScores]

Question(id, options) == [id |-> id, options |-> options]

\* a Result descriptor; only its identity matters to calculate
Result(tech) == [name |-> tech]

Results(techs) == [t \in techs |-> Result(t)]

NextChoices == {Null, "q1", "q2"}

\* the scores of q1.opt1, q1.opt2 and q2.opt3, and tree.results
Scorings ==
    { \* RecommendationEngine.test.ts, mockTree
      [opt1 |-> <<Entry("tech1", 3), Entry("tech2", 1)>>,
       opt2 |-> <<Entry("tech1", 1), Entry("tech2", 3)>>,
       opt3 |-> <<Entry("tech1", 2), Entry("tech2", 1)>>,
       results |-> Results({"tech1", "tech2"})],
      \* options without score entries, and an entry of 0 points
      [opt1 |-> <<>>,
       opt2 |-> <<Entry("tech1", 0)>>,
       opt3 |-> <<>>,
       results |-> Results({"tech1"})],
      \* ties at the top, keys inserted out of alphabetical order
      [opt1 |-> <<Entry("tech2", 2), Entry("tech1", 1)>>,
       opt2 |-> <<Entry("tech2", 3), Entry("Tech3", 3)>>,
       opt3 |-> <<Entry("tech1", 1)>>,
       results |-> Results({"tech1", "tech2", "Tech3"})],
      \* the same ties with a Result for tech2 only
      [opt1 |-> <<Entry("tech2", 2), Entry("tech1", 1)>>,
       opt2 |-> <<Entry("tech2", 3), Entry("Tech3", 3)>>,
       opt3 |-> <<Entry("tech1", 1)>>,
       results |-> Results({"tech2"})],
      \* the same ties with a Result for tech1 only
      [opt1 |-> <<Entry("tech2", 2), Entry("tech1", 1)>>,
       opt2 |-> <<Entry("tech2", 3), Entry("Tech3", 3)>>,
       opt3 |-> <<Entry("tech1", 1)>>,
       results |-> Results({"tech1"})],
      \* negative points and an outcome key without a Result
      [opt1 |-> <<Entry("tech1", -1), Entry("Tech3", -3)>>,
       opt2 |-> <<Entry("Tech3", 1)>>,
       opt3 |-> <<Entry("Tech3", 2), Entry("tech2", 0)>>,
       results |-> Results({"tech1", "tech2"})],
      \* RecommendationEngine.test.ts, the confidence trees: {10, 2}, {5, 4},
      \* and through opt1 and opt3 {7, 5}
      [opt1 |-> <<Entry("tech1", 10), Entry("tech2", 2)>>,
       opt2 |-> <<Entry("tech1", 5), Entry("tech2", 4)>>,
       opt3 |-> <<Entry("tech1", -3), Entry("tech2", 3)>>,
       results |-> Results({"tech1", "tech2"})],
      \* a sole scored key, a negative runner-up, and a difference of 4
      [opt1 |-> <<Entry("tech1", 5)>>,
       opt2 |-> <<Entry("tech1", 4), Entry("tech2", -3)>>,
       opt3 |-> <<Entry("tech2", 1), Entry("tech1", 0)>>,
       results |-> Results({"tech1", "tech2"})] }

MakeTree(numQuestions, next1, next2, next3, scoring) ==
    [id |-> "test-tree",
     questions |->
        SubSeq(<<Question("q1", <<Option("opt1", next1, scoring.opt1),
                                  Option("opt2", next2, scoring.opt2)>>),
                 Question("q2", <<Option("opt3", next3, scoring.opt3)>>)>>,
               1, numQuestions),
     results |-> scoring.results]

Trees ==
    { MakeTree(n, n1, n2, n3, sc) :
        n \in 0..2, n1 \in NextChoices, n2 \in NextChoices,
        n3 \in NextChoices, sc \in Scorings }

Answer(questionId, optionId) == [questionId |-> questionId, optionId |-> optionId]

\* every answer a client may send: known and unknown pairs of ids
AnswerChoices ==
    { Answer("q1", "opt1"), Answer("q1", "opt2"), Answer("q1", "opt3"),
      Answer("q2", "opt3"), Answer("q2", "opt1") }

SeqsUpTo(S, n) == UNION { [1..k -> S] : k \in 0..n }

AnswerLists == SeqsUpTo(AnswerChoices, MaxAnswers)

(***************************************************************************)
(* validateAnswerPath                                                      *)
(***************************************************************************)
\* questionMap.has(id), for questionMap = new Map(tree.questions.map(q => [q.id, q]))
questionMapHas(t, id) == \E k \in DOMAIN t.questions : t.questions[k].id = id

\* questionMap.get(id): a later entry of the same key replaces an earlier one
questionMapGet(t, id) ==
    LET last == CHOOSE k \in DOMAIN t.questions :
                    /\ t.questions[k].id = id
                    /\ \A j \in DOMAIN t.questions :
                          t.questions[j].id = id => j <= k
    IN  t.questions[last]

\* question.options.find(opt => opt.id === optionId) found an option
findOptionFound(question, optionId) ==
    \E k \in DOMAIN question.options : question.options[k].id = optionId

\* question.options.find(opt => opt.id === optionId): the first match
findOption(question, optionId) ==
    LET first == CHOOSE k \in DOMAIN question.options :
                     /\ question.options[k].id = optionId
                     /\ \A j \in DOMAIN question.options :
                           question.options[j].id = optionId => k <= j
    IN  question.options[first]

noAnswers_Never(answerList) == FALSE

\* answers.length === 0
noAnswers(answerList) == Len(answerList) = 0

\* tree.questions[0]?.id || null: ids are non-empty strings, so only a tree
\* without questions yields null
firstExpectedQuestionId(t) ==
    IF Len(t.questions) = 0 THEN Null ELSE t.questions[1].id

checkAnswer_QuestionLookupFirst(t, answer, expectedQuestionId, position) ==
    IF ~questionMapHas(t, answer.questionId)
    THEN createError(QUESTION_NOT_FOUND,
                     <<"Question", answer.questionId, "not found in tree">>)
    ELSE IF answer.questionId # expectedQuestionId
    THEN createError(INVALID_ANSWER_PATH,
                     <<"Expected question", expectedQuestionId, "but got",
                       answer.questionId, "at position", ToString(position)>>)
    ELSE IF ~findOptionFound(questionMapGet(t, answer.questionId), answer.optionId)
    THEN createError(OPTION_NOT_FOUND,
                     <<"Option", answer.optionId, "not found in question",
                       answer.questionId>>)
    ELSE NoError

checkAnswer_AnyOrder(t, answer, expectedQuestionId, position) ==
    IF ~questionMapHas(t, answer.questionId)
    THEN createError(QUESTION_NOT_FOUND,
                     <<"Question", answer.questionId, "not found in tree">>)
    ELSE IF ~findOptionFound(questionMapGet(t, answer.questionId), answer.optionId)
    THEN createError(OPTION_NOT_FOUND,
                     <<"Option", answer.optionId, "not found in question",
                       answer.questionId>>)
    ELSE NoError

checkAnswer_OptionReportedAsQuestion(t, answer, expectedQuestionId, position) ==
    IF answer.questionId # expectedQuestionId
    THEN createError(INVALID_ANSWER_PATH,
                     <<"Expected question", expectedQuestionId, "but got",
                       answer.questionId, "at position", ToString(position)>>)
    ELSE IF ~questionMapHas(t, answer.questionId)
    THEN createError(QUESTION_NOT_FOUND,
                     <<"Question", answer.questionId, "not found in tree">>)
    ELSE IF ~findOptionFound(questionMapGet(t, answer.questionId), answer.optionId)
    THEN createError(QUESTION_NOT_FOUND,
                     <<"Question", answer.questionId, "not found in tree">>)
    ELSE NoError

\* the three checks of one loop iteration, in the order of the code; position
\* is the loop index i (0-based)
checkAnswer(t, answer, expectedQuestionId, position) ==
    IF answer.questionId # expectedQuestionId
    THEN createError(INVALID_ANSWER_PATH,
                     <<"Expected question", expectedQuestionId, "but got",
                       answer.questionId, "at position", ToString(position)>>)
    ELSE IF ~questionMapHas(t, answer.questionId)
    THEN createError(QUESTION_NOT_FOUND,
                     <<"Question", answer.questionId, "not found in tree">>)
    ELSE IF ~findOptionFound(questionMapGet(t, answer.questionId), answer.optionId)
    THEN createError(OPTION_NOT_FOUND,
                     <<"Option", answer.optionId, "not found in question",
                       answer.questionId>>)
    ELSE NoError

reachedEnd_Never(expectedQuestionId) == FALSE

\* if (expectedQuestionId === null) break
reachedEnd(expectedQuestionId) == expectedQuestionId = Null

endNodeMissing_Never(expectedQuestionId) == FALSE

\* if (expectedQuestionId !== null) after the loop
endNodeMissing(expectedQuestionId) == expectedQuestionId # Null

\* what follows the loop
afterLoop(expectedQuestionId) ==
    IF endNodeMissing(expectedQuestionId)
    THEN createError(INVALID_ANSWER_PATH,
                     <<"Answer path did not reach a valid end node">>)
    ELSE NoError

\* the for loop from index i (1-based here, i - 1 in the code)
RECURSIVE validateLoop(_, _, _, _)
validateLoop(t, answerList, i, expectedQuestionId) ==
    IF i > Len(answerList)
    THEN afterLoop(expectedQuestionId)
    ELSE LET answer == answerList[i]
             failure == checkAnswer(t, answer, expectedQuestionId, i - 1)
         IN  IF failure # NoError
             THEN failure
             ELSE LET option == findOption(questionMapGet(t, answer.questionId),
                                           answer.optionId)
                  IN  IF reachedEnd(option.nextQuestionId)
                      THEN afterLoop(option.nextQuestionId)
                      ELSE validateLoop(t, answerList, i + 1, option.nextQuestionId)

\* the error validateAnswerPath throws, or NoError when it returns
validateAnswerPath(t, answerList) ==
    IF noAnswers(answerList)
    THEN createError(MISSING_ANSWERS, <<"No answers provided">>)
    ELSE validateLoop(t, answerList, 1, firstExpectedQuestionId(t))

(***************************************************************************)
(* calculateScores                                                         *)
(***************************************************************************)
addPoints_Overwrite(rec, tech, points) ==
    IF HasKey(rec, tech)
    THEN [i \in DOMAIN rec |->
            IF rec[i].tech = tech THEN Entry(tech, points) ELSE rec[i]]
    ELSE Append(rec, Entry(tech, points))

\* scores[tech] = (scores[tech] || 0) + points
addPoints(rec, tech, points) ==
    IF HasKey(rec, tech)
    THEN [i \in DOMAIN rec |->
            IF rec[i].tech = tech
            THEN Entry(tech, Get(rec, tech) + points)
            ELSE rec[i]]
    ELSE Append(rec, Entry(tech, 0 + points))

\* for (const [tech, points] of Object.entries(option.scores)), from entry k
RECURSIVE addOptionScores(_, _, _)
addOptionScores(rec, optScores, k) ==
    IF k > Len(optScores)
    THEN rec
    ELSE addOptionScores(addPoints(rec, optScores[k].tech, optScores[k].points),
                         optScores, k + 1)

\* for (const answer of answers), from answer i, with the running scores
RECURSIVE scoreLoop(_, _, _, _)
scoreLoop(t, answerList, i, rec) ==
    IF i > Len(answerList)
    THEN rec
    ELSE LET answer == answerList[i]
         IN  IF ~questionMapHas(t, answer.questionId)
             THEN scoreLoop(t, answerList, i + 1, rec)
             ELSE IF ~findOptionFound(questionMapGet(t, answer.questionId),
                                      answer.optionId)
             THEN scoreLoop(t, answerList, i + 1, rec)
             ELSE scoreLoop(t, answerList, i + 1,
                            addOptionScores(
                                rec,
                                findOption(questionMapGet(t, answer.questionId),
                                           answer.optionId).scores,
                                1))

calculateScores(t, answerList) == scoreLoop(t, answerList, 1, <<>>)

(***************************************************************************)
(* determineWinner and breakTie                                            *)
(***************************************************************************)
mathMax_Min(values) ==
    CHOOSE m \in Range(values) : \A v \in Range(values) : m <= v

\* Math.max(...values) of a non-empty list
mathMax(values) ==
    CHOOSE m \in Range(values) : \A v \in Range(values) : v <= m

\* the outcome keys of the model in the order of Array.prototype.sort():
\* by UTF-16 code unit, so an upper-case letter precedes every lower-case one
CodeUnitOrder == <<"Tech3", "tech1", "tech2">>

sortRank(tech) == CHOOSE k \in DOMAIN CodeUnitOrder : CodeUnitOrder[k] = tech

firstSorted_InsertionOrder(techs) == techs[1]

\* [...tiedTechnologies].sort()[0]
firstSorted(techs) ==
    CHOOSE a \in Range(techs) : \A b \in Range(techs) : sortRank(a) <= sortRank(b)

\* tree.results[tech] is truthy
hasResult(t, tech) == tech \in DOMAIN t.results

breakTie_AlphabeticalOnly(tiedTechnologies, rec, t) ==
    [winner |-> firstSorted(tiedTechnologies),
     explanation |->
        <<"Tied with", ToString(Len(tiedTechnologies)), "options">>
        \o tiedTechnologies
        \o <<"Consider reviewing your requirements - both may be equally suitable.">>]

breakTie(tiedTechnologies, rec, t) ==
    LET withResults == SelectSeq(tiedTechnologies, LAMBDA tech : hasResult(t, tech))
    IN  IF Len(withResults) = 1
        THEN [winner |-> withResults[1],
              explanation |->
                <<"Selected based on available documentation and guidance">>]
        ELSE [winner |-> firstSorted(tiedTechnologies),
              explanation |->
                <<"Tied with", ToString(Len(tiedTechnologies)), "options">>
                \o tiedTechnologies
                \o <<"Consider reviewing your requirements - both may be equally suitable.">>]

determineWinner_NoEmptyCheck(rec, t) ==
    IF Len(ObjectKeys(rec)) = 0
    THEN [error |-> NoError, winner |-> Undefined,
          tieBreaker |-> [defined |-> TRUE,
                          text |-> <<"Tied with", "0", "options">>]]
    ELSE LET technologies == ObjectKeys(rec)
             maxScore == mathMax(ObjectValues(rec))
             winners == SelectSeq(technologies,
                                  LAMBDA tech : Get(rec, tech) = maxScore)
         IN  IF Len(winners) = 1
             THEN [error |-> NoError, winner |-> winners[1],
                   tieBreaker |-> NoTieBreaker]
             ELSE [error |-> NoError,
                   winner |-> breakTie(winners, rec, t).winner,
                   tieBreaker |-> [defined |-> TRUE,
                                   text |-> breakTie(winners, rec, t).explanation]]

\* what determineWinner throws (error) or returns (winner, tieBreaker)
determineWinner(rec, t) ==
    LET technologies == ObjectKeys(rec)
    IN  IF Len(technologies) = 0
        THEN [error |-> createError(NO_RECOMMENDATION,
                                    <<"No technologies scored any points">>),
              winner |-> Undefined, tieBreaker |-> NoTieBreaker]
        ELSE LET maxScore == mathMax(ObjectValues(rec))
                 winners == SelectSeq(technologies,
                                      LAMBDA tech : Get(rec, tech) = maxScore)
             IN  IF Len(winners) = 1
                 THEN [error |-> NoError, winner |-> winners[1],
                       tieBreaker |-> NoTieBreaker]
                 ELSE [error |-> NoError,
                       winner |-> breakTie(winners, rec, t).winner,
                       tieBreaker |-> [defined |-> TRUE,
                                       text |-> breakTie(winners, rec, t).explanation]]

(***************************************************************************)
(* calculateConfidence                                                     *)
(***************************************************************************)
\* if (difference >= 5) return 'high'
HighDifference == 5

\* if (difference >= 2) return 'medium'
MediumDifference == 2

\* Math.max(...values, 0)
mathMaxOrZero(values) ==
    CHOOSE m \in Range(values) \cup {0} : \A v \in Range(values) \cup {0} : v <= m

calculateConfidence_TieExcluded(rec, theWinner) ==
    LET scoreValues == ObjectValues(rec)
        winnerScore == Get(rec, theWinner)
        otherScores == SelectSeq(scoreValues, LAMBDA sc : sc # winnerScore)
        secondHighest == mathMaxOrZero(otherScores)
        difference == winnerScore - secondHighest
    IN  IF difference >= HighDifference THEN "high"
        ELSE IF difference >= MediumDifference THEN "medium"
        ELSE "low"

\* const secondHighest, from scoreValues, winnerScore and otherScores
secondHighest(rec, theWinner) ==
    LET scoreValues == ObjectValues(rec)
        winnerScore == Get(rec, theWinner)
        shared == Len(SelectSeq(scoreValues, LAMBDA sv : sv = winnerScore)) > 1
        otherScores == SelectSeq(scoreValues, LAMBDA sc : sc # winnerScore \/ shared)
    IN  mathMaxOrZero(otherScores)

calculateConfidence(rec, theWinner) ==
    LET winnerScore == Get(rec, theWinner)
        difference == winnerScore - secondHighest(rec, theWinner)
    IN  IF difference >= HighDifference THEN "high"
        ELSE IF difference >= MediumDifference THEN "medium"
        ELSE "low"

(***************************************************************************)
(* JSON values as the validator meets them.                                *)
(***************************************************************************)
\* whether the object has the property
Has(obj, key) == key \in DOMAIN obj

\* obj.key for a string-valued property: undefined when the object lacks it
Prop(obj, key) == IF Has(obj, key) THEN obj[key] ELSE Undefined

\* the object without the property
Without(obj, key) == [k \in DOMAIN obj \ {key} |-> obj[k]]

\* JavaScript truthiness of a string, null or undefined
Truthy(value) == value \notin {Undefined, Null, ""}

\* a text of white space only
Blank == " "

\* String.prototype.trim on the texts of the domain
trim(text) == IF text = Blank THEN "" ELSE text

\* typeof score === 'number': a numeric score entry carries its points
isNumber(entry) == Has(entry, "points")

\* a score entry whose value is the non-numeric string "high"
NonNumberEntry(tech) == [tech |-> tech, text |-> "high"]

\* the file holds the JSON value null
JsonNull == [jsonNull |-> TRUE]

\* the file is not JSON: JSON.parse throws a SyntaxError
NotJson == [syntaxError |-> TRUE]

RECURSIVE Flatten(_)
\* the concatenation of a sequence of sequences (nested forEach, in order)
Flatten(seqs) == IF seqs = <<>> THEN <<>> ELSE Head(seqs) \o Flatten(Tail(seqs))

\* Array.prototype.includes
includes(list, value) == \E i \in DOMAIN list : list[i] = value

\* types/index.ts ValidationError; message holds the interpolated values
ValidationError(code, message, location) ==
    [type |-> "error", code |-> code, message |-> message, location |-> location]

\* types/index.ts ValidationWarning
ValidationWarning(code, message, location) ==
    [type |-> "warning", code |-> code, message |-> message, location |-> location]

\* an error or warning pushed without a location
NoLocation == <<>>

\* `questions[${index}]`, with the zero-based index of forEach
questionLocation(i) == <<"questions", ToString(i - 1)>>

\* `${questionLocation}.options[${index}]`
optionLocation(location, k) == location \o <<"options", ToString(k - 1)>>

\* the two arrays a pass pushes to
Lists(errs, warns) == [errors |-> errs, warnings |-> warns]

(***************************************************************************)
(* DecisionTreeValidator: the six passes of validate.                      *)
(***************************************************************************)
\* validateBasicStructure(tree, errors): the errors array after the pass
validateBasicStructure(t, errs) ==
    IF Has(t, "jsonNull")
    THEN Append(errs, ValidationError("TREE_NULL", <<>>, NoLocation))
    ELSE LET e1 == IF ~Truthy(Prop(t, "id"))
                   THEN Append(errs, ValidationError("MISSING_TREE_ID", <<>>, NoLocation))
                   ELSE errs
             e2 == IF ~Truthy(Prop(t, "title"))
                   THEN Append(e1, ValidationError("MISSING_TREE_TITLE", <<>>, NoLocation))
                   ELSE e1
         IN  IF ~Has(t, "questions")
             THEN Append(e2, ValidationError("INVALID_QUESTIONS", <<>>, NoLocation))
             ELSE LET e3 == IF Len(t.questions) = 0
                            THEN Append(e2, ValidationError("EMPTY_TREE", <<>>, NoLocation))
                            ELSE e2
                  IN  IF ~Has(t, "results")
                      THEN Append(e3, ValidationError("INVALID_RESULTS", <<>>, NoLocation))
                      ELSE e3

\* Object.entries(option.scores).forEach: one INVALID_SCORE per non-number value
invalidScores(optScores, location) ==
    LET bad == SelectSeq(optScores, LAMBDA entry : ~isNumber(entry))
    IN  [i \in DOMAIN bad |->
            ValidationError("INVALID_SCORE", <<bad[i].tech>>,
                            location \o <<"scores", bad[i].tech>>)]

\* the body of options.forEach in validateOptions, for one option
validateOption(option, optionIds, location, lists) ==
    LET id == Prop(option, "id")
        label == Prop(option, "label")
        e1 == IF ~Truthy(id)
              THEN Append(lists.errors, ValidationError("MISSING_OPTION_ID", <<>>, location))
              ELSE IF id \in optionIds
                   THEN Append(lists.errors,
                               ValidationError("DUPLICATE_OPTION_ID", <<id>>, location))
                   ELSE lists.errors
        e2 == IF ~Truthy(label) \/ trim(label) = ""
              THEN Append(e1, ValidationError("MISSING_OPTION_LABEL", <<>>, location))
              ELSE e1
        e3 == IF ~Has(option, "scores")
              THEN Append(e2, ValidationError("MISSING_SCORES", <<>>, location))
              ELSE e2
        w3 == IF Has(option, "scores") /\ Len(option.scores) = 0
              THEN Append(lists.warnings, ValidationWarning("EMPTY_SCORES", <<>>, location))
              ELSE lists.warnings
        e4 == IF Has(option, "scores")
              THEN e3 \o invalidScores(option.scores, location)
              ELSE e3
    IN  Lists(e4, w3)

RECURSIVE validateOptionsFrom(_, _, _, _, _)
\* options.forEach from index k on, optionIds being the ids seen so far
validateOptionsFrom(options, k, optionIds, location, lists) ==
    IF k > Len(options)
    THEN lists
    ELSE LET id == Prop(options[k], "id")
         IN  validateOptionsFrom(
                 options, k + 1,
                 IF Truthy(id) THEN optionIds \cup {id} ELSE optionIds,
                 location,
                 validateOption(options[k], optionIds, optionLocation(location, k), lists))

\* validateOptions(options, questionLocation, errors, warnings)
validateOptions(options, location, lists) ==
    validateOptionsFrom(options, 1, {}, location, lists)

\* the body of tree.questions.forEach in validateQuestions, for one question
validateQuestion(question, questionIds, location, lists) ==
    LET id == Prop(question, "id")
        text == Prop(question, "text")
        e1 == IF ~Truthy(id)
              THEN Append(lists.errors, ValidationError("MISSING_QUESTION_ID", <<>>, location))
              ELSE IF id \in questionIds
                   THEN Append(lists.errors,
                               ValidationError("DUPLICATE_QUESTION_ID", <<id>>, location))
                   ELSE lists.errors
        e2 == IF ~Truthy(text) \/ trim(text) = ""
              THEN Append(e1, ValidationError("MISSING_QUESTION_TEXT", <<>>, location))
              ELSE e1
    IN  IF ~Has(question, "options") \/ Len(question.options) = 0
        THEN Lists(Append(e2, ValidationError("MISSING_OPTIONS", <<>>, location)),
                   lists.warnings)
        ELSE validateOptions(question.options, location, Lists(e2, lists.warnings))

RECURSIVE validateQuestionsFrom(_, _, _, _)
\* tree.questions.forEach from index i on, questionIds being the ids seen so far
validateQuestionsFrom(t, i, questionIds, lists) ==
    IF i > Len(t.questions)
    THEN lists
    ELSE LET id == Prop(t.questions[i], "id")
         IN  validateQuestionsFrom(
                 t, i + 1,
                 IF Truthy(id) THEN questionIds \cup {id} ELSE questionIds,
                 validateQuestion(t.questions[i], questionIds, questionLocation(i), lists))

\* validateQuestions(tree, errors, warnings)
validateQuestions(t, lists) == validateQuestionsFrom(t, 1, {}, lists)

\* question.options.forEach of an undefined options throws a TypeError
referencesThrow(t) == \E i \in DOMAIN t.questions : ~Has(t.questions[i], "options")

referenceErrors_LinksOnly(t, question, option, location) ==
    LET next == Prop(option, "nextQuestionId")
        questionIds == {Prop(t.questions[i], "id") : i \in DOMAIN t.questions}
        dangling == IF next # Null /\ next \notin questionIds
                    THEN <<ValidationError("INVALID_REFERENCE", <<next>>, location)>>
                    ELSE <<>>
        selfLoop == IF next # Null /\ next = Prop(question, "id")
                    THEN <<ValidationError("CIRCULAR_REFERENCE", <<>>, location)>>
                    ELSE <<>>
    IN  dangling \o selfLoop

\* the body of question.options.forEach in validateReferences, for one option
referenceErrors(t, question, option, location) ==
    LET next == Prop(option, "nextQuestionId")
        questionIds == {Prop(t.questions[i], "id") : i \in DOMAIN t.questions}
        dangling == IF next # Null /\ next \notin questionIds
                    THEN <<ValidationError("INVALID_REFERENCE", <<next>>, location)>>
                    ELSE <<>>
        selfLoop == IF next # Null /\ next = Prop(question, "id")
                    THEN <<ValidationError("CIRCULAR_REFERENCE", <<>>, location)>>
                    ELSE <<>>
        keys == IF Has(option, "scores") THEN ObjectKeys(option.scores) ELSE <<>>
        undocumented == SelectSeq(keys, LAMBDA tech : ~hasResult(t, tech))
        missing == [i \in DOMAIN undocumented |->
                       ValidationError("MISSING_RESULT", <<undocumented[i]>>,
                                       location \o <<"scores", undocumented[i]>>)]
    IN  dangling \o selfLoop \o missing

\* validateReferences(tree, errors): the errors array after the pass
validateReferences(t, errs) ==
    errs \o Flatten([i \in DOMAIN t.questions |->
                Flatten([k \in DOMAIN t.questions[i].options |->
                    referenceErrors(t, t.questions[i], t.questions[i].options[k],
                                    optionLocation(questionLocation(i), k))])])

\* tree.questions.find(q => q.id === questionId) found a question
findQuestionFound(t, questionId) ==
    \E i \in DOMAIN t.questions : Prop(t.questions[i], "id") = questionId

\* tree.questions.find(q => q.id === questionId): the first match
findQuestion(t, questionId) ==
    LET first == CHOOSE i \in DOMAIN t.questions :
                     /\ Prop(t.questions[i], "id") = questionId
                     /\ \A j \in 1..(i - 1) : Prop(t.questions[j], "id") # questionId
    IN  t.questions[first]

RECURSIVE dfs(_, _, _, _), dfsOptions(_, _, _, _, _)
dfs_AnyRevisit(t, questionId, path, search) ==
    IF questionId \in search.visited
    THEN [search EXCEPT !.errors =
             Append(@, ValidationError("CIRCULAR_REFERENCE",
                                       path \o <<questionId>>, NoLocation))]
    ELSE LET added == [search EXCEPT !.visited = @ \cup {questionId},
                                     !.reachable = @ \cup {questionId}]
         IN  IF ~findQuestionFound(t, questionId)
             THEN added
             ELSE dfsOptions(t, findQuestion(t, questionId), 1,
                             path \o <<questionId>>, added)

\* const dfs = (questionId, path): search holds reachable, visited and errors
dfs(t, questionId, path, search) ==
    IF questionId \in search.visited
    THEN IF includes(path, questionId)
         THEN [search EXCEPT !.errors =
                  Append(@, ValidationError("CIRCULAR_REFERENCE",
                                            path \o <<questionId>>, NoLocation))]
         ELSE search
    ELSE LET added == [search EXCEPT !.visited = @ \cup {questionId},
                                     !.reachable = @ \cup {questionId}]
         IN  IF ~findQuestionFound(t, questionId)
             THEN added
             ELSE dfsOptions(t, findQuestion(t, questionId), 1,
                             path \o <<questionId>>, added)

\* for (const option of question.options), from index k on
dfsOptions(t, question, k, path, search) ==
    IF k > Len(question.options)
    THEN search
    ELSE LET next == Prop(question.options[k], "nextQuestionId")
         IN  dfsOptions(t, question, k + 1, path,
                        IF Truthy(next) THEN dfs(t, next, path, search) ELSE search)

\* validateReachability(tree, errors, warnings)
validateReachability(t, lists) ==
    IF Len(t.questions) = 0
    THEN lists
    ELSE LET search == dfs(t, Prop(t.questions[1], "id"), <<>>,
                           [reachable |-> {}, visited |-> {}, errors |-> lists.errors])
             allQuestionIds == [i \in DOMAIN t.questions |-> Prop(t.questions[i], "id")]
             unreachable == SelectSeq(allQuestionIds, LAMBDA id : id \notin search.reachable)
         IN  Lists(search.errors,
                   lists.warnings \o
                   [i \in DOMAIN unreachable |->
                       ValidationWarning("UNREACHABLE_QUESTION", <<unreachable[i]>>,
                                         NoLocation)])

\* Object.keys(tree.results): the files list their result keys in code-unit order
resultKeys(t) == SelectSeq(CodeUnitOrder, LAMBDA key : key \in DOMAIN t.results)

\* the errors pushed for one result
resultErrors(res, location) ==
    IF ~Truthy(Prop(res, "name"))
    THEN <<ValidationError("MISSING_RESULT_NAME", <<>>, location)>>
    ELSE <<>>

\* the warnings pushed for one result
resultWarnings(res, location) ==
    (IF ~Truthy(Prop(res, "reasoning"))
     THEN <<ValidationWarning("MISSING_REASONING", <<>>, location)>> ELSE <<>>)
    \o
    (IF ~Has(res, "tradeoffs") \/ Len(res.tradeoffs) = 0
     THEN <<ValidationWarning("MISSING_TRADEOFFS", <<>>, location)>> ELSE <<>>)
    \o
    (IF ~Truthy(Prop(res, "whenToReconsider"))
     THEN <<ValidationWarning("MISSING_RECONSIDER", <<>>, location)>> ELSE <<>>)

\* validateResults(tree, errors, warnings)
validateResults(t, lists) ==
    LET keys == resultKeys(t)
    IN  IF Len(keys) = 0
        THEN Lists(Append(lists.errors, ValidationError("NO_RESULTS", <<>>, NoLocation)),
                   lists.warnings)
        ELSE Lists(lists.errors \o
                   Flatten([i \in DOMAIN keys |->
                       resultErrors(t.results[keys[i]], <<"results", keys[i]>>)]),
                   lists.warnings \o
                   Flatten([i \in DOMAIN keys |->
                       resultWarnings(t.results[keys[i]], <<"results", keys[i]>>)]))

\* Object.entries(option.scores) of an undefined scores throws a TypeError
scoreBalanceThrows(t) ==
    \E i \in DOMAIN t.questions :
        \/ ~Has(t.questions[i], "options")
        \/ \E k \in DOMAIN t.questions[i].options : ~Has(t.questions[i].options[k], "scores")

\* NaN, as Math.max yields for a non-number score
NaNEntry(tech) == [tech |-> tech, nan |-> TRUE]

\* maxScores[tech] || 0: undefined, 0 and NaN all give 0
maxScoreOrZero(maxScores, tech) ==
    IF \E i \in DOMAIN maxScores : maxScores[i].tech = tech /\ isNumber(maxScores[i])
    THEN (CHOOSE entry \in Range(maxScores) : entry.tech = tech).points
    ELSE 0

\* maxScores[tech] = Math.max(maxScores[tech] || 0, score)
putMaxScore(maxScores, entry) ==
    LET before == maxScoreOrZero(maxScores, entry.tech)
        after == IF ~isNumber(entry)
                 THEN NaNEntry(entry.tech)
                 ELSE Entry(entry.tech, IF entry.points > before THEN entry.points ELSE before)
    IN  IF \E i \in DOMAIN maxScores : maxScores[i].tech = entry.tech
        THEN [i \in DOMAIN maxScores |->
                 IF maxScores[i].tech = entry.tech THEN after ELSE maxScores[i]]
        ELSE Append(maxScores, after)

RECURSIVE maxScoresFrom(_, _, _)
\* the three nested forEach of validateScoreBalance over all score entries in order
maxScoresFrom(entries, k, maxScores) ==
    IF k > Len(entries)
    THEN maxScores
    ELSE maxScoresFrom(entries, k + 1, putMaxScore(maxScores, entries[k]))

RECURSIVE sumPoints(_)
\* Object.values(maxScores).reduce((a, b) => a + b, 0), all values being numbers
sumPoints(maxScores) ==
    IF maxScores = <<>> THEN 0 ELSE Head(maxScores).points + sumPoints(Tail(maxScores))

\* |x|
abs(x) == IF x < 0 THEN -x ELSE x

\* deviation > 0.5, where deviation = |max - avg| / avg and avg = total / count:
\* NaN when a value is NaN or avg is 0 (every maximum is then 0), and no
\* comparison with NaN is true; otherwise avg > 0 and the test is
\* 2 * |max * count - total| > total (no file of the domain sits on the
\* boundary with an average that a double cannot hold)
imbalanced(maxScores, entry) ==
    /\ \A i \in DOMAIN maxScores : isNumber(maxScores[i])
    /\ sumPoints(maxScores) > 0
    /\ 2 * abs(entry.points * Len(maxScores) - sumPoints(maxScores)) > sumPoints(maxScores)

\* validateScoreBalance(tree, warnings): the warnings array after the pass
validateScoreBalance(t, warns) ==
    LET entries == Flatten([i \in DOMAIN t.questions |->
                       Flatten([k \in DOMAIN t.questions[i].options |->
                           t.questions[i].options[k].scores])])
        maxScores == maxScoresFrom(entries, 1, <<>>)
        odd == SelectSeq(maxScores, LAMBDA entry : imbalanced(maxScores, entry))
    IN  warns \o [i \in DOMAIN odd |->
                     ValidationWarning("SCORE_IMBALANCE", <<odd[i].tech>>, NoLocation)]

(***************************************************************************)
(* validate(tree): what a call hands back.                                 *)
(***************************************************************************)
\* no call of validate has ended
NoValidation == [outcome |-> "none", isValid |-> FALSE, errors |-> <<>>, warnings |-> <<>>]

\* validate threw a TypeError out of one of its passes
ThrownTypeError ==
    [outcome |-> "threw", isValid |-> FALSE, errors |-> <<>>, warnings |-> <<>>]

\* return { isValid, errors, warnings }
ValidationResult(isValid, errs, warns) ==
    [outcome |-> "returned", isValid |-> isValid, errors |-> errs, warnings |-> warns]

\* if (errors.length > 0) after validateBasicStructure
basicStructureFailed(errs) == Len(errs) > 0

\* isValid: errors.length === 0
noErrors(errs) == Len(errs) = 0

\* validate(tree) as one function
validate(t) ==
    LET basic == validateBasicStructure(t, <<>>)
    IN  IF basicStructureFailed(basic)
        THEN ValidationResult(FALSE, basic, <<>>)
        ELSE LET questioned == validateQuestions(t, Lists(basic, <<>>))
             IN  IF referencesThrow(t)
                 THEN ThrownTypeError
                 ELSE LET referenced == validateReferences(t, questioned.errors)
                          reached == validateReachability(
                                         t, Lists(referenced, questioned.warnings))
                          described == validateResults(t, reached)
                      IN  IF scoreBalanceThrows(t)
                          THEN ThrownTypeError
                          ELSE LET balanced == validateScoreBalance(t, described.warnings)
                               IN  ValidationResult(noErrors(described.errors),
                                                    described.errors, balanced)

(***************************************************************************)
(* DecisionTreeService: the tree store.                                    *)
(***************************************************************************)
\* ErrorCode.TREE_NOT_FOUND
TREE_NOT_FOUND == "TREE_NOT_FOUND"

\* Map.prototype.has
mapHas(map, key) == \E i \in DOMAIN map : map[i].key = key

\* Map.prototype.get, of a key the map has
mapGet(map, key) == (CHOOSE entry \in Range(map) : entry.key = key).value

\* Map.prototype.set: a new key is added last, a known key keeps its place
mapSet(map, key, value) ==
    IF mapHas(map, key)
    THEN [i \in DOMAIN map |->
             IF map[i].key = key THEN [key |-> key, value |-> value] ELSE map[i]]
    ELSE Append(map, [key |-> key, value |-> value])

\* Array.from(map.values())
mapValues(map) == [i \in DOMAIN map |-> map[i].value]

\* JSON.parse(content) throws a SyntaxError
parseThrows(file) == Has(file, "syntaxError")

\* if (!validation.isValid) ... continue, stated on warnings too
blocksLoading_OnWarnings(report) == ~report.isValid \/ Len(report.warnings) > 0

\* if (!validation.isValid) { logger.error(...); continue; }
blocksLoading(report) == ~report.isValid

\* this.trees.set(tree.id, tree)
storeTree(map, t) == mapSet(map, t.id, t)

\* the try body of loadTrees after validate ended: the map after lines 53-66
afterValidate(map, t, report) ==
    IF report.outcome = "threw"
    THEN map
    ELSE IF blocksLoading(report)
         THEN map
         ELSE storeTree(map, t)

\* a call of the service that none has made yet
NoResponse == [threw |-> NoCode, trees |-> <<>>]

\* getTree(treeId)
getTree(map, treeId) ==
    IF ~mapHas(map, treeId)
    THEN [threw |-> TREE_NOT_FOUND, trees |-> <<>>]
    ELSE [threw |-> NoCode, trees |-> <<mapGet(map, treeId)>>]

\* getAllTrees()
getAllTrees(map) == [threw |-> NoCode, trees |-> mapValues(map)]

(***************************************************************************)
(* The state of the half of the program that is not running.               *)
(***************************************************************************)
\* a parameter or local that no call has set
Unset == [unset |-> TRUE]

\* no call of validate and no load is under way, and the store is empty
LoaderIdle ==
    /\ files = <<>>
    /\ trees = <<>>
    /\ fileIndex = 1
    /\ svcPc = "idle"
    /\ response = NoResponse
    /\ rawTree = Unset
    /\ vpc = "idle"
    /\ errors = <<>>
    /\ warnings = <<>>
    /\ validation = NoValidation
    /\ validations = <<>>

\* no questionnaire page is open
PageIdle ==
    /\ currentQuestionIndex = 0
    /\ pageAnswers = <<>>
    /\ pagePc = "closed"

\* no decision is saved and no call on the collection is under way
StoreIdle ==
    /\ savedDecisions = <<>>
    /\ calls = <<>>

(***************************************************************************)
(* calculate: one call, sub-step by sub-step.                              *)
(***************************************************************************)
NoResult ==
    [recommendation |-> Undefined, scores |-> <<>>, result |-> Result(Undefined),
     answers |-> <<>>, tieBreaker |-> NoTieBreaker, confidence |-> Undefined]

Init ==
    /\ tree \in Trees
    /\ answers \in AnswerLists
    /\ pc = "validateAnswerPath"
    /\ scores = <<>>
    /\ winner = Undefined
    /\ tieBreaker = NoTieBreaker
    /\ confidence = Undefined
    /\ error = NoError
    /\ result = NoResult
    /\ LoaderIdle
    /\ PageIdle
    /\ StoreIdle

\* this.validateAnswerPath(tree, answers)
ValidateAnswerPath ==
    /\ pc = "validateAnswerPath"
    /\ LET thrown == validateAnswerPath(tree, answers)
       IN  IF thrown # NoError
           THEN /\ pc' = "thrown"
                /\ error' = thrown
           ELSE /\ pc' = "calculateScores"
                /\ error' = error
    /\ UNCHANGED <<tree, answers, scores, winner, tieBreaker, confidence, result>>
    /\ UNCHANGED <<loaderVars, pageVars, storeVars>>

CalculateScores_ShiftsAnswers ==
    /\ pc = "calculateScores"
    /\ scores' = calculateScores(tree, answers)
    /\ answers' = <<>>
    /\ pc' = "determineWinner"
    /\ UNCHANGED <<tree, winner, tieBreaker, confidence, error, result>>
    /\ UNCHANGED <<loaderVars, pageVars, storeVars>>

\* const scores = this.calculateScores(tree, answers)
CalculateScores ==
    /\ pc = "calculateScores"
    /\ scores' = calculateScores(tree, answers)
    /\ pc' = "determineWinner"
    /\ UNCHANGED <<tree, answers, winner, tieBreaker, confidence, error, result>>
    /\ UNCHANGED <<loaderVars, pageVars, storeVars>>

\* const { winner, tieBreaker } = this.determineWinner(scores, tree)
DetermineWinner ==
    /\ pc = "determineWinner"
    /\ LET outcome == determineWinner(scores, tree)
       IN  IF outcome.error # NoError
           THEN /\ pc' = "thrown"
                /\ error' = outcome.error
                /\ UNCHANGED <<winner, tieBreaker>>
           ELSE /\ pc' = "calculateConfidence"
                /\ winner' = outcome.winner
                /\ tieBreaker' = outcome.tieBreaker
                /\ error' = error
    /\ UNCHANGED <<tree, answers, scores, confidence, result>>
    /\ UNCHANGED <<loaderVars, pageVars, storeVars>>

\* const confidence = this.calculateConfidence(scores, winner)
CalculateConfidence ==
    /\ pc = "calculateConfidence"
    /\ confidence' = calculateConfidence(scores, winner)
    /\ pc' = "lookupResult"
    /\ UNCHANGED <<tree, answers, scores, winner, tieBreaker, error, result>>
    /\ UNCHANGED <<loaderVars, pageVars, storeVars>>

\* const result = tree.results[winner]; throw if missing, else return
LookupResult ==
    /\ pc = "lookupResult"
    /\ IF ~hasResult(tree, winner)
       THEN /\ pc' = "thrown"
            /\ error' = plainError(<<"Result not found for technology:", winner>>)
            /\ result' = result
       ELSE /\ pc' = "returned"
            /\ result' = [recommendation |-> winner,
                          scores |-> scores,
                          result |-> tree.results[winner],
                          answers |-> answers,
                          tieBreaker |-> tieBreaker,
                          confidence |-> confidence]
            /\ error' = error
    /\ UNCHANGED <<tree, answers, scores, winner, tieBreaker, confidence>>
    /\ UNCHANGED <<loaderVars, pageVars, storeVars>>

Next ==
    \/ ValidateAnswerPath
    \/ CalculateScores
    \/ DetermineWinner
    \/ CalculateConfidence
    \/ LookupResult

Spec == Init /\ [][Next]_vars

(***************************************************************************)
(* The files of the trees directory.                                       *)
(***************************************************************************)
\* the number of .json files in the directory
MaxFiles == 2

\* a Result with every property of types/index.ts
FullResult(tech) ==
    [name |-> tech, reasoning |-> "why", tradeoffs |-> <<"cost">>,
     whenToReconsider |-> "later", bestFor |-> "teams"]

FullResults(techs) == [tech \in techs |-> FullResult(tech)]

\* an Option with every property of types/index.ts
RawOption(id, nextQuestionId, optScores) ==
    [id |-> id, label |-> "label", nextQuestionId |-> nextQuestionId, scores |-> optScores]

\* a Question with every property of types/index.ts
RawQuestion(id, options) == [id |-> id, text |-> "text", options |-> options]

\* a DecisionTree with the properties the validator and the service read
RawTree(id, questions, results) ==
    [id |-> id, title |-> "title", questions |-> questions, results |-> results]

\* what the files of the directory can hold
FileTrees ==
    LET
        \* two questions, every key documented, balanced scores: no error, no warning
        GoodQuestions ==
            <<RawQuestion("q1", <<RawOption("opt1", "q2", <<Entry("tech1", 3)>>),
                                  RawOption("opt2", Null, <<Entry("tech2", 3)>>)>>),
              RawQuestion("q2", <<RawOption("opt1", Null,
                                            <<Entry("tech1", 1), Entry("tech2", 1)>>)>>)>>

        GoodTree == RawTree("tree-a", GoodQuestions, FullResults({"tech1", "tech2"}))

        \* another valid tree under the same id
        RevisedTree ==
            RawTree("tree-a",
                    <<RawQuestion("q1", <<RawOption("opt1", Null,
                                                    <<Entry("tech1", 2), Entry("tech2", 2)>>)>>)>>,
                    FullResults({"tech1", "tech2"}))

        \* warnings only: an empty scores object, an unreachable question, unbalanced
        \* scores and a Result that has nothing but its name
        WarnedTree ==
            RawTree("tree-b",
                    <<RawQuestion("q1", <<RawOption("opt1", Null, <<>>),
                                          RawOption("opt2", Null,
                                                    <<Entry("tech1", 4), Entry("tech2", 1)>>)>>),
                      RawQuestion("q2", <<RawOption("opt1", Null, <<Entry("tech1", 1)>>)>>)>>,
                    [tech \in {"tech1", "tech2"} |->
                        IF tech = "tech1" THEN FullResult(tech) ELSE Result(tech)])

        \* a duplicate question id, a dangling nextQuestionId, a score key without a Result
        BrokenQuestions ==
            <<RawQuestion("q1", <<RawOption("opt1", "q9", <<Entry("Tech3", 1)>>)>>),
              RawQuestion("q1", <<RawOption("opt1", Null, <<Entry("tech1", 1)>>)>>)>>

        BrokenTree == RawTree("tree-a", BrokenQuestions, FullResults({"tech1", "tech2"}))

        \* no title, nothing else wrong
        UntitledTree == Without(RawTree("tree-b", GoodQuestions, FullResults({"tech1", "tech2"})),
                                "title")

        \* no title, and the three later problems of BrokenTree
        UntitledBrokenTree == Without(BrokenTree, "title")

        \* no id and no title
        AnonymousTree == Without(Without(GoodTree, "id"), "title")

        \* q1 -> q2 -> q1, and q3 out of reach
        CyclicTree ==
            RawTree("tree-b",
                    <<RawQuestion("q1", <<RawOption("opt1", "q2", <<Entry("tech1", 1)>>)>>),
                      RawQuestion("q2", <<RawOption("opt1", "q1", <<Entry("tech1", 1)>>)>>),
                      RawQuestion("q3", <<RawOption("opt1", Null, <<Entry("tech1", 1)>>)>>)>>,
                    FullResults({"tech1"}))

        \* an option that points to its own question, and a blank question text
        SelfLoopTree ==
            RawTree("tree-b",
                    <<[RawQuestion("q1", <<RawOption("opt1", "q1", <<Entry("tech1", 1)>>),
                                           RawOption("opt1", Null, <<Entry("tech1", 1)>>)>>)
                          EXCEPT !.text = Blank]>>,
                    FullResults({"tech1"}))

        \* an option without a scores property
        NoScoresTree ==
            RawTree("tree-b",
                    <<RawQuestion("q1", <<Without(RawOption("opt1", Null, <<>>), "scores")>>)>>,
                    FullResults({"tech1"}))

        \* a question without an options property
        NoOptionsTree ==
            RawTree("tree-b", <<Without(RawQuestion("q1", <<>>), "options")>>,
                    FullResults({"tech1"}))

        \* a question whose options array is empty, and an empty results object
        HollowTree == RawTree("tree-b", <<RawQuestion("q1", <<>>)>>, FullResults({}))

        \* a score that is not a number, and a Result without a name
        NonNumberTree ==
            RawTree("tree-b",
                    <<RawQuestion("q1", <<RawOption("opt1", Null,
                                                    <<NonNumberEntry("tech1"),
                                                      Entry("tech2", 1)>>)>>)>>,
                    [tech \in {"tech1", "tech2"} |->
                        IF tech = "tech1"
                        THEN FullResult(tech)
                        ELSE Without(FullResult(tech), "name")])

        \* no questions property
        NoQuestionsTree == Without(GoodTree, "questions")

        \* an empty questions array and no results property
        EmptyTree == Without(RawTree("tree-b", <<>>, FullResults({})), "results")
    IN  {GoodTree, RevisedTree, WarnedTree, BrokenTree, UntitledTree, UntitledBrokenTree,
         AnonymousTree, CyclicTree, SelfLoopTree, NoScoresTree, NoOptionsTree, HollowTree,
         NonNumberTree, NoQuestionsTree, EmptyTree, JsonNull, NotJson}

\* the .json files of the directory, in the order readdirSync lists them; a
\* directory that does not exist loads as one without files (lines 36-39)
Directories == SeqsUpTo(FileTrees, MaxFiles)

\* the directory as the next reload finds it: one file written, added or removed
ReloadDirectories(directory) ==
    {directory}
    \cup {[directory EXCEPT ![i] = file] : i \in DOMAIN directory, file \in FileTrees}
    \cup (IF Len(directory) < MaxFiles
          THEN {Append(directory, file) : file \in FileTrees}
          ELSE {})
    \cup (IF Len(directory) > 0
          THEN {SubSeq(directory, 1, Len(directory) - 1)}
          ELSE {})

\* the ids getTree is asked for
TreeIds == {"tree-a", "tree-b", "tree-c"}

(***************************************************************************)
(* validate, pass by pass.                                                 *)
(***************************************************************************)
\* this.validateBasicStructure(tree, errors) and the early return (lines 23-27)
ValidateBasicStructure ==
    /\ vpc = "validateBasicStructure"
    /\ LET pushed == validateBasicStructure(rawTree, errors)
       IN  /\ errors' = pushed
           /\ IF basicStructureFailed(pushed)
              THEN /\ validation' = ValidationResult(FALSE, pushed, warnings)
                   /\ vpc' = "returned"
              ELSE /\ validation' = validation
                   /\ vpc' = "validateQuestions"
    /\ UNCHANGED <<rawTree, warnings, serviceVars, calcVars, pageVars, storeVars>>

\* this.validateQuestions(tree, errors, warnings)
ValidateQuestions ==
    /\ vpc = "validateQuestions"
    /\ LET pushed == validateQuestions(rawTree, Lists(errors, warnings))
       IN  /\ errors' = pushed.errors
           /\ warnings' = pushed.warnings
    /\ vpc' = "validateReferences"
    /\ UNCHANGED <<rawTree, validation, serviceVars, calcVars, pageVars, storeVars>>

\* this.validateReferences(tree, errors)
ValidateReferences ==
    /\ vpc = "validateReferences"
    /\ IF referencesThrow(rawTree)
       THEN /\ vpc' = "thrown"
            /\ validation' = ThrownTypeError
            /\ errors' = errors
       ELSE /\ vpc' = "validateReachability"
            /\ validation' = validation
            /\ errors' = validateReferences(rawTree, errors)
    /\ UNCHANGED <<rawTree, warnings, serviceVars, calcVars, pageVars, storeVars>>

\* this.validateReachability(tree, errors, warnings)
ValidateReachability ==
    /\ vpc = "validateReachability"
    /\ LET pushed == validateReachability(rawTree, Lists(errors, warnings))
       IN  /\ errors' = pushed.errors
           /\ warnings' = pushed.warnings
    /\ vpc' = "validateResults"
    /\ UNCHANGED <<rawTree, validation, serviceVars, calcVars, pageVars, storeVars>>

\* this.validateResults(tree, errors, warnings)
ValidateResults ==
    /\ vpc = "validateResults"
    /\ LET pushed == validateResults(rawTree, Lists(errors, warnings))
       IN  /\ errors' = pushed.errors
           /\ warnings' = pushed.warnings
    /\ vpc' = "validateScoreBalance"
    /\ UNCHANGED <<rawTree, validation, serviceVars, calcVars, pageVars, storeVars>>

\* this.validateScoreBalance(tree, warnings) and the return (lines 42-48)
ValidateScoreBalance ==
    /\ vpc = "validateScoreBalance"
    /\ IF scoreBalanceThrows(rawTree)
       THEN /\ vpc' = "thrown"
            /\ validation' = ThrownTypeError
            /\ warnings' = warnings
       ELSE LET pushed == validateScoreBalance(rawTree, warnings)
            IN  /\ vpc' = "returned"
                /\ warnings' = pushed
                /\ validation' = ValidationResult(noErrors(errors), errors, pushed)
    /\ UNCHANGED <<rawTree, errors, serviceVars, calcVars, pageVars, storeVars>>

(***************************************************************************)
(* DecisionTreeService: loadTrees file by file, reload and the two reads.  *)
(***************************************************************************)
\* no call of calculate is under way
CalculatorIdle ==
    /\ tree = Unset
    /\ answers = <<>>
    /\ pc = "idle"
    /\ scores = <<>>
    /\ winner = Undefined
    /\ tieBreaker = NoTieBreaker
    /\ confidence = Undefined
    /\ error = NoError
    /\ result = NoResult

\* new DecisionTreeService(): an empty map, and loadTrees about to run
InitLoad ==
    /\ files \in Directories
    /\ trees = <<>>
    /\ fileIndex = 1
    /\ svcPc = "loadTrees"
    /\ response = NoResponse
    /\ rawTree = Unset
    /\ vpc = "idle"
    /\ errors = <<>>
    /\ warnings = <<>>
    /\ validation = NoValidation
    /\ validations = <<>>
    /\ CalculatorIdle
    /\ PageIdle
    /\ StoreIdle

\* for (const file of jsonFiles): read and parse, then call validate (lines 44-51)
ReadFile ==
    /\ svcPc = "loadTrees"
    /\ fileIndex <= Len(files)
    /\ IF parseThrows(files[fileIndex])
       THEN /\ fileIndex' = fileIndex + 1
            /\ validations' = Append(validations, NoValidation)
            /\ UNCHANGED <<svcPc, validatorVars>>
       ELSE /\ rawTree' = files[fileIndex]
            /\ vpc' = "validateBasicStructure"
            /\ errors' = <<>>
            /\ warnings' = <<>>
            /\ validation' = NoValidation
            /\ svcPc' = "validate"
            /\ UNCHANGED <<fileIndex, validations>>
    /\ UNCHANGED <<files, trees, response, calcVars, pageVars, storeVars>>

\* validate ended: skip the tree or store it, then the next file (lines 53-66);
\* the locals of this iteration and of the call of validate are gone
StoreOrSkip ==
    /\ svcPc = "validate"
    /\ vpc \in {"returned", "thrown"}
    /\ trees' = afterValidate(trees, rawTree, validation)
    /\ validations' = Append(validations, validation)
    /\ fileIndex' = fileIndex + 1
    /\ svcPc' = "loadTrees"
    /\ rawTree' = Unset
    /\ vpc' = "idle"
    /\ errors' = <<>>
    /\ warnings' = <<>>
    /\ validation' = NoValidation
    /\ UNCHANGED <<files, response, calcVars, pageVars, storeVars>>

\* the loop has read every file: loadTrees returns (line 69)
LoadTreesEnd ==
    /\ svcPc = "loadTrees"
    /\ fileIndex > Len(files)
    /\ svcPc' = "idle"
    /\ UNCHANGED <<files, trees, fileIndex, response, validations, validatorVars, calcVars, pageVars, storeVars>>

\* reload(): this.trees.clear(), and loadTrees about to run on the directory as it is
Reload(directory) ==
    /\ svcPc = "idle"
    /\ trees' = <<>>
    /\ files' = directory
    /\ fileIndex' = 1
    /\ validations' = <<>>
    /\ svcPc' = "loadTrees"
    /\ response' = NoResponse
    /\ UNCHANGED <<validatorVars, calcVars, pageVars, storeVars>>

\* getTree(treeId)
GetTree(treeId) ==
    /\ svcPc = "idle"
    /\ response' = getTree(trees, treeId)
    /\ UNCHANGED <<files, trees, fileIndex, svcPc, validations, validatorVars, calcVars, pageVars, storeVars>>

\* getAllTrees()
GetAllTrees ==
    /\ svcPc = "idle"
    /\ response' = getAllTrees(trees)
    /\ UNCHANGED <<files, trees, fileIndex, svcPc, validations, validatorVars, calcVars, pageVars, storeVars>>

NextLoad ==
    \/ ReadFile
    \/ ValidateBasicStructure
    \/ ValidateQuestions
    \/ ValidateReferences
    \/ ValidateReachability
    \/ ValidateResults
    \/ ValidateScoreBalance
    \/ StoreOrSkip
    \/ LoadTreesEnd
    \/ \E directory \in ReloadDirectories(files) : Reload(directory)
    \/ \E treeId \in TreeIds : GetTree(treeId)
    \/ GetAllTrees

SpecLoad == InitLoad /\ [][NextLoad]_vars

(***************************************************************************)
(* The vocabulary of the properties: walks through a tree, stated on the   *)
(* tree itself and not through the calculator's lookups.                   *)
(***************************************************************************)
AllTechs == {"tech1", "tech2", "Tech3"}

PathErrorCodes == {INVALID_ANSWER_PATH, QUESTION_NOT_FOUND, OPTION_NOT_FOUND}

QuestionExists(t, id) == \E q \in Range(t.questions) : q.id = id

QuestionNamed(t, id) == CHOOSE q \in Range(t.questions) : q.id = id

OptionExists(t, a) ==
    /\ QuestionExists(t, a.questionId)
    /\ \E o \in Range(QuestionNamed(t, a.questionId).options) : o.id = a.optionId

ChosenOption(t, a) ==
    CHOOSE o \in Range(QuestionNamed(t, a.questionId).options) : o.id = a.optionId

\* the entry question: the first question of the tree
EntryQuestionId(t) == IF t.questions = <<>> THEN Null ELSE Head(t.questions).id

\* the question answer i is expected to be for (i counts from 1)
ExpectedAt(t, as, i) ==
    IF i = 1 THEN EntryQuestionId(t)
    ELSE IF OptionExists(t, as[i - 1]) THEN ChosenOption(t, as[i - 1]).nextQuestionId
    ELSE Null

\* answer i is for the expected question and names one of its options
PassesChecks(t, as, i) ==
    /\ as[i].questionId = ExpectedAt(t, as, i)
    /\ OptionExists(t, as[i])

\* answer i passes and the option it chooses leads on to another question
StepsOn(t, as, i) ==
    /\ PassesChecks(t, as, i)
    /\ ChosenOption(t, as[i]).nextQuestionId # Null

\* answer i is examined: every answer before it steps on
Examined(t, as, i) ==
    /\ i \in 1..Len(as)
    /\ \A j \in 1..(i - 1) : StepsOn(t, as, j)

\* the first n answers are a legal walk from the entry question to a terminal option
LegalWalk(t, as, n) ==
    /\ n \in 1..Len(as)
    /\ Examined(t, as, n)
    /\ PassesChecks(t, as, n)
    /\ ChosenOption(t, as[n]).nextQuestionId = Null

HasTerminalPrefix(t, as) == \E n \in 1..Len(as) : LegalWalk(t, as, n)

TerminalPosition(t, as) == CHOOSE n \in 1..Len(as) : LegalWalk(t, as, n)

\* the points option o gives to tech (0 when it does not mention it)
OptionPoints(o, tech) ==
    IF \E e \in Range(o.scores) : e.tech = tech
    THEN (CHOOSE e \in Range(o.scores) : e.tech = tech).points
    ELSE 0

\* the sum of tech's points over the options chosen by the first n answers
RECURSIVE WalkPoints(_, _, _, _)
WalkPoints(t, as, n, tech) ==
    IF n = 0 THEN 0
    ELSE WalkPoints(t, as, n - 1, tech) + OptionPoints(ChosenOption(t, as[n]), tech)

\* some option chosen by the first n answers mentions tech
WalkMentions(t, as, n, tech) ==
    \E j \in 1..n : \E e \in Range(ChosenOption(t, as[j]).scores) : e.tech = tech

\* calculate has run calculateScores (and may have thrown or returned since)
Scored ==
    /\ pc \notin {"validateAnswerPath", "calculateScores"}
    /\ ~(pc = "thrown" /\ error.code \in PathErrorCodes \cup {MISSING_ANSWERS})

\* path validation is over (it threw or returned)
Validated == pc # "validateAnswerPath"

Threw(code) == pc = "thrown" /\ error.code = code

(***************************************************************************)
(* C1: for an answer list that is exactly one legal walk from the entry    *)
(* question to a terminal option, path validation passes and the scores    *)
(* calculate accumulates and returns map each outcome key to the sum of    *)
(* its points over the chosen options; a key no chosen option mentions is  *)
(* absent.                                                                 *)
(***************************************************************************)
C1_ScoresAreWalkSums ==
    LegalWalk(tree, answers, Len(answers)) =>
        /\ ~(pc = "thrown" /\ error.code \in PathErrorCodes \cup {MISSING_ANSWERS})
        /\ Scored =>
            /\ \A tech \in AllTechs :
                  IF WalkMentions(tree, answers, Len(answers), tech)
                  THEN /\ HasKey(scores, tech)
                       /\ Get(scores, tech) = WalkPoints(tree, answers, Len(answers), tech)
                  ELSE ~HasKey(scores, tech)
            /\ Cardinality(Range(ObjectKeys(scores))) = Len(scores)
            /\ Range(ObjectKeys(scores)) \subseteq AllTechs
        /\ pc = "returned" => result.scores = scores

C1_Witness ==
    /\ pc = "returned"
    /\ Len(answers) = 2
    /\ LegalWalk(tree, answers, 2)
    /\ result.scores = <<Entry("tech1", 5), Entry("tech2", 2)>>

(***************************************************************************)
(* C2: answers after the first terminal answer are not scored: the scores  *)
(* calculate returns are the scores it computes for the list cut off right *)
(* after that terminal answer.                                             *)
(***************************************************************************)
C2_TrailingAnswersNotScored ==
    (pc = "returned" /\ HasTerminalPrefix(tree, answers)) =>
        result.scores =
            calculateScores(tree, SubSeq(answers, 1, TerminalPosition(tree, answers)))

(***************************************************************************)
(* C3: answers after the first terminal answer are not validated: when a   *)
(* prefix of the list is a legal walk to a terminal option, calculate      *)
(* throws none of InvalidAnswerPath, QuestionNotFound, OptionNotFound.     *)
(***************************************************************************)
C3_TrailingAnswersNotValidated ==
    HasTerminalPrefix(tree, answers) =>
        ~(pc = "thrown" /\ error.code \in PathErrorCodes)

C3_Witness ==
    /\ Scored
    /\ HasTerminalPrefix(tree, answers)
    /\ TerminalPosition(tree, answers) < Len(answers)
    /\ \E i \in (TerminalPosition(tree, answers) + 1)..Len(answers) :
          ~QuestionExists(tree, answers[i].questionId)
    /\ \E i \in (TerminalPosition(tree, answers) + 1)..Len(answers) :
          /\ QuestionExists(tree, answers[i].questionId)
          /\ ~OptionExists(tree, answers[i])

(***************************************************************************)
(* C4: with an empty answer list calculate throws MissingAnswers, for      *)
(* every tree, a tree without questions or results included; no other     *)
(* check comes first.                                                      *)
(***************************************************************************)
C4_EmptyAnswersMissingAnswers ==
    (answers = <<>> /\ Validated) =>
        /\ Threw(MISSING_ANSWERS)
        /\ error.message = <<"No answers provided">>
        /\ result = NoResult

C4_Witness ==
    /\ answers = <<>>
    /\ tree.questions = <<>>
    /\ Threw(MISSING_ANSWERS)

(***************************************************************************)
(* C5: answers must come in walk order: an examined answer whose           *)
(* questionId is not the expected question makes calculate throw           *)
(* InvalidAnswerPath, also when every answer of the list names an existing *)
(* question and one of its options.                                        *)
(***************************************************************************)
C5_OutOfOrderInvalidAnswerPath ==
    \A i \in 1..Len(answers) :
        ( /\ Validated
          /\ Examined(tree, answers, i)
          /\ answers[i].questionId # ExpectedAt(tree, answers, i) ) =>
            /\ Threw(INVALID_ANSWER_PATH)
            /\ error.message =
                  <<"Expected question", ExpectedAt(tree, answers, i), "but got",
                    answers[i].questionId, "at position", ToString(i - 1)>>

C5_Witness ==
    /\ Threw(INVALID_ANSWER_PATH)
    /\ Len(answers) = 2
    /\ \A i \in 1..Len(answers) : OptionExists(tree, answers[i])
    /\ Examined(tree, answers, 2)
    /\ answers[2].questionId # ExpectedAt(tree, answers, 2)

(***************************************************************************)
(* C6: when every answer of a non-empty list passes the per-answer checks  *)
(* and the last chosen option is not terminal, calculate throws            *)
(* InvalidAnswerPath with the message 'Answer path did not reach a valid   *)
(* end node' and returns nothing.                                          *)
(***************************************************************************)
C6_IncompletePathInvalidAnswerPath ==
    ( /\ Validated
      /\ Len(answers) > 0
      /\ \A i \in 1..Len(answers) : StepsOn(tree, answers, i) ) =>
        /\ Threw(INVALID_ANSWER_PATH)
        /\ error.message = <<"Answer path did not reach a valid end node">>
        /\ result = NoResult

C6_Witness ==
    /\ Threw(INVALID_ANSWER_PATH)
    /\ Len(answers) = 2
    /\ \A i \in 1..Len(answers) : StepsOn(tree, answers, i)

(***************************************************************************)
(* C7: an examined answer that names the expected question, when that      *)
(* question exists and has no option with the answer's optionId, makes     *)
(* calculate throw OptionNotFound, wherever in the walk it stands.         *)
(***************************************************************************)
C7_UnknownOptionOptionNotFound ==
    \A i \in 1..Len(answers) :
        ( /\ Validated
          /\ Examined(tree, answers, i)
          /\ answers[i].questionId = ExpectedAt(tree, answers, i)
          /\ QuestionExists(tree, answers[i].questionId)
          /\ ~OptionExists(tree, answers[i]) ) =>
            Threw(OPTION_NOT_FOUND)

C7_Witness ==
    /\ Threw(OPTION_NOT_FOUND)
    /\ Len(answers) = 3
    /\ Examined(tree, answers, 2)
    /\ answers[2].questionId = ExpectedAt(tree, answers, 2)
    /\ QuestionExists(tree, answers[2].questionId)
    /\ ~OptionExists(tree, answers[2])

(***************************************************************************)
(* C8: the per-answer checks run in the order expected-question,           *)
(* question-exists, option-exists: an examined answer for another question *)
(* than the expected one throws InvalidAnswerPath even when its id names   *)
(* no question, and QuestionNotFound is thrown exactly when an examined    *)
(* answer is for the expected id and no question of the tree has that id.  *)
(***************************************************************************)
C8_CheckOrder ==
    Validated =>
        /\ \A i \in 1..Len(answers) :
              ( /\ Examined(tree, answers, i)
                /\ answers[i].questionId # ExpectedAt(tree, answers, i) ) =>
                    Threw(INVALID_ANSWER_PATH)
        /\ Threw(QUESTION_NOT_FOUND) <=>
              \E i \in 1..Len(answers) :
                  /\ Examined(tree, answers, i)
                  /\ answers[i].questionId = ExpectedAt(tree, answers, i)
                  /\ ~QuestionExists(tree, answers[i].questionId)

C8_Witness ==
    /\ Threw(INVALID_ANSWER_PATH)
    /\ Len(tree.questions) > 0
    /\ Examined(tree, answers, 1)
    /\ answers[1].questionId # ExpectedAt(tree, answers, 1)
    /\ ~QuestionExists(tree, answers[1].questionId)

\* the other half of C8's case: QuestionNotFound is thrown for a dangling link
C8_QuestionNotFoundReached ==
    /\ Threw(QUESTION_NOT_FOUND)
    /\ Examined(tree, answers, 2)
    /\ answers[2].questionId = ExpectedAt(tree, answers, 2)

(***************************************************************************)
(* C9: when the answers pass path validation and the accumulated score     *)
(* mapping is empty, calculate throws NoRecommendation and returns         *)
(* nothing.                                                                *)
(***************************************************************************)
C9_EmptyScoresNoRecommendation ==
    (Scored /\ scores = <<>> /\ pc # "determineWinner") =>
        /\ Threw(NO_RECOMMENDATION)
        /\ error.message = <<"No technologies scored any points">>
        /\ result = NoResult

C9_Witness ==
    /\ Threw(NO_RECOMMENDATION)
    /\ scores = <<>>
    /\ Len(answers) = 2
    /\ LegalWalk(tree, answers, 2)

(***************************************************************************)
(* C10: a returned recommendation is an outcome key whose accumulated      *)
(* score is the maximum over all keys of scores; when one key alone holds  *)
(* the maximum it is the recommendation and no tieBreaker is attached.     *)
(***************************************************************************)
HoldsMaximum(rec, tech) ==
    /\ HasKey(rec, tech)
    /\ \A i \in DOMAIN rec : rec[i].points <= Get(rec, tech)

C10_WinnerHoldsMaximum ==
    pc = "returned" =>
        /\ HoldsMaximum(result.scores, result.recommendation)
        /\ Cardinality({i \in DOMAIN result.scores :
                            HoldsMaximum(result.scores, result.scores[i].tech)}) = 1
              => ~result.tieBreaker.defined

C10_Witness ==
    /\ pc = "returned"
    /\ Len(result.scores) = 3
    /\ result.recommendation = result.scores[3].tech
    /\ ~result.tieBreaker.defined
    /\ \E i \in DOMAIN result.scores : result.scores[i].points < 0

(***************************************************************************)
(* The vocabulary of the winner properties.                                *)
(***************************************************************************)
\* the outcome keys that hold the maximum of rec
TiedKeys(rec) == {rec[i].tech : i \in {j \in DOMAIN rec : HoldsMaximum(rec, rec[j].tech)}}

\* the tied keys that have a Result descriptor in the tree
DocumentedTiedKeys(t, rec) == {k \in TiedKeys(rec) : k \in DOMAIN t.results}

\* a precedes b in ascending case-sensitive alphabetical order
Precedes(a, b) == sortRank(a) < sortRank(b)

\* determineWinner has returned (calculate may have thrown or returned since)
WinnerDetermined ==
    \/ pc \in {"calculateConfidence", "lookupResult", "returned"}
    \/ Threw(NoCode)

(***************************************************************************)
(* C11: when two or more keys share the maximum score and the              *)
(* documentation rule does not single out exactly one of them, the winner  *)
(* is the first tied key in ascending case-sensitive alphabetical order,   *)
(* whatever the order of accumulation, and the tieBreaker explanation is   *)
(* present and names every tied key.                                       *)
(***************************************************************************)
C11_AlphabeticalFallback ==
    ( /\ WinnerDetermined
      /\ Cardinality(TiedKeys(scores)) >= 2
      /\ Cardinality(DocumentedTiedKeys(tree, scores)) # 1 ) =>
        /\ winner \in TiedKeys(scores)
        /\ \A k \in TiedKeys(scores) : k # winner => Precedes(winner, k)
        /\ tieBreaker.defined
        /\ tieBreaker.text # <<>>
        /\ TiedKeys(scores) \subseteq Range(tieBreaker.text)
        /\ pc = "returned" =>
              /\ result.recommendation = winner
              /\ result.tieBreaker = tieBreaker

\* an upper-case key wins over a lower-case key that was accumulated first
\* the same without any Result among the tied keys
C11_UndocumentedTieReached ==
    /\ WinnerDetermined
    /\ TiedKeys(scores) = {"tech2", "Tech3"}
    /\ DocumentedTiedKeys(tree, scores) = {}
    /\ winner = "Tech3"

C11_Witness ==
    /\ pc = "returned"
    /\ TiedKeys(result.scores) = {"tech2", "Tech3"}
    /\ result.scores[1].tech = "tech2"
    /\ result.recommendation = "Tech3"
    /\ Cardinality(DocumentedTiedKeys(tree, result.scores)) = 2

(***************************************************************************)
(* C12: when two or more keys share the maximum score and exactly one of   *)
(* the tied keys has a Result descriptor, that key wins, also when another *)
(* tied key precedes it alphabetically, and the result carries the         *)
(* documentation explanation; the rule comes before the alphabetical one.  *)
(***************************************************************************)
C12_DocumentedKeyWins ==
    ( /\ WinnerDetermined
      /\ Cardinality(TiedKeys(scores)) >= 2
      /\ Cardinality(DocumentedTiedKeys(tree, scores)) = 1 ) =>
        /\ DocumentedTiedKeys(tree, scores) = {winner}
        /\ tieBreaker =
              [defined |-> TRUE,
               text |-> <<"Selected based on available documentation and guidance">>]
        /\ pc # "thrown"
        /\ pc = "returned" =>
              /\ result.recommendation = winner
              /\ result.tieBreaker = tieBreaker
              /\ result.result = tree.results[winner]

C12_Witness ==
    /\ pc = "returned"
    /\ Cardinality(TiedKeys(result.scores)) = 2
    /\ DocumentedTiedKeys(tree, result.scores) = {result.recommendation}
    /\ \E k \in TiedKeys(result.scores) : Precedes(k, result.recommendation)

(***************************************************************************)
(* The runner-up of the confidence properties: the score the winner is     *)
(* compared with.  With the maximum shared it is the maximum itself; with  *)
(* a sole maximum it is the greatest score of the other keys, and 0 when   *)
(* there is no other key.                                                  *)
(***************************************************************************)
OtherScores(rec, tech) == {rec[i].points : i \in {j \in DOMAIN rec : rec[j].tech # tech}}

RunnerUp(rec, tech) ==
    IF Cardinality(TiedKeys(rec)) >= 2 THEN Get(rec, tech)
    ELSE IF OtherScores(rec, tech) = {} THEN 0
    ELSE CHOOSE m \in OtherScores(rec, tech) : \A v \in OtherScores(rec, tech) : v <= m

(***************************************************************************)
(* C13: with difference = the winner's score minus the second-highest      *)
(* score, the confidence of a returned result is 'high' iff                *)
(* difference >= 5, 'medium' iff 2 <= difference < 5, and 'low' otherwise. *)
(***************************************************************************)
C13_ConfidenceThresholds ==
    pc = "returned" =>
        LET difference == Get(result.scores, result.recommendation)
                          - RunnerUp(result.scores, result.recommendation)
        IN  result.confidence =
                IF difference >= 5 THEN "high"
                ELSE IF difference >= 2 THEN "medium"
                ELSE "low"

(***************************************************************************)
(* C14: when one key alone holds the winner's score, the second-highest    *)
(* score used for the confidence is the maximum of the other keys' scores, *)
(* negative totals included, and it is 0 only when no other key has a      *)
(* score.                                                                  *)
(***************************************************************************)
C14_SecondHighestOfOthers ==
    ( /\ pc \in {"lookupResult", "returned"}
      /\ Cardinality(TiedKeys(scores)) = 1 ) =>
        secondHighest(scores, winner) = RunnerUp(scores, winner)

(***************************************************************************)
(* C15: a returned result carries a tieBreaker explanation if and only if  *)
(* two or more keys share the maximum score, and then its confidence is    *)
(* 'low', whatever the tied score is.                                      *)
(***************************************************************************)
C15_TieBreakerIffTie ==
    pc = "returned" =>
        /\ result.tieBreaker.defined <=> Cardinality(TiedKeys(result.scores)) >= 2
        /\ result.tieBreaker.defined => result.tieBreaker.text # <<>>
        /\ Cardinality(TiedKeys(result.scores)) >= 2 => result.confidence = "low"

\* a tie at a score that alone would be a difference of 'high'
C15_Witness ==
    /\ pc = "returned"
    /\ Cardinality(TiedKeys(result.scores)) >= 2
    /\ Get(result.scores, result.recommendation) >= 5
    /\ result.tieBreaker.defined
    /\ result.confidence = "low"

(***************************************************************************)
(* C17: calculate never changes its inputs: no step of a call, returning   *)
(* or throwing, changes the tree or the supplied answer list, and the      *)
(* returned result echoes the supplied answer list in full, in order.      *)
(***************************************************************************)
C17_InputsUnchanged ==
    /\ [][tree' = tree /\ answers' = answers]_vars
    /\ [](pc = "returned" => result.answers = answers)

\* the echo includes the answers that follow the terminal one
C17_Witness ==
    /\ pc = "returned"
    /\ Len(answers) = 3
    /\ result.answers = answers
    /\ TerminalPosition(tree, answers) = 1

(***************************************************************************)
(* C18: every call returns a result or throws one of the five typed        *)
(* errors; no call ends with an error without a code, also for a tree in   *)
(* which a scored outcome key has no Result descriptor.                    *)
(***************************************************************************)
C18_OnlyTypedErrors ==
    pc = "thrown" =>
        error.code \in {MISSING_ANSWERS, INVALID_ANSWER_PATH, QUESTION_NOT_FOUND,
                        OPTION_NOT_FOUND, NO_RECOMMENDATION}

(***************************************************************************)
(* The vocabulary of the load-time properties, stated on the files and on  *)
(* what validate reported for them.                                        *)
(***************************************************************************)
\* loadTrees (from the constructor or from reload) has returned
Loaded == svcPc = "idle"

\* validate returned a result for the i-th file of the load, without any error
ZeroErrors(i) == validations[i].outcome = "returned" /\ Len(validations[i].errors) = 0

\* the service holds the tree: getTree returns it under its id, getAllTrees lists it
Held(t) ==
    /\ getTree(trees, Prop(t, "id")).trees = <<t>>
    /\ includes(getAllTrees(trees).trees, t)

\* the j-th file passed with the tree id of the i-th one
PassedUnderIdOf(j, i) == ZeroErrors(j) /\ files[j].id = files[i].id

\* the last file that passed with the tree id of the i-th one was read after it
\* and has another content
ReplacedLater(i) ==
    \E j \in (i + 1)..Len(files) :
        /\ PassedUnderIdOf(j, i)
        /\ \A k \in (j + 1)..Len(files) : ~PassedUnderIdOf(k, i)
        /\ files[j] # files[i]

\* every tree the service lists was read from a file for which validate reported no error
OnlyAcceptedFilesHeld ==
    \A t \in Range(getAllTrees(trees).trees) :
        \E i \in DOMAIN files : files[i] = t /\ ZeroErrors(i)

\* isValid of every result validate returned in this load is true exactly when
\* its errors list is empty
IsValidIffNoErrors ==
    \A i \in DOMAIN validations :
        validations[i].outcome = "returned" =>
            (validations[i].isValid <=> Len(validations[i].errors) = 0)

\* C19 as stated: after loadTrees or reload, a tree read from a file is held by
\* the service if and only if validate reported zero errors for it, whatever the
\* number of its warnings, and isValid is true exactly when errors is empty.
C19_HeldIffZeroErrors ==
    Loaded =>
        /\ Len(validations) = Len(files)
        /\ \A i \in DOMAIN files : Held(files[i]) <=> ZeroErrors(i)
        /\ IsValidIffNoErrors

\* C19 as amended: after loadTrees or reload, a tree read from a file is held by
\* the service if and only if validate reported zero errors for it and the last
\* file of the same load that passed with its tree id has its content (a tree
\* that passes later under the same id takes its place); warnings never keep a
\* tree out, the service holds nothing else, and isValid is true exactly when
\* errors is empty.
C19_HeldIffZeroErrorsAndNotReplaced ==
    Loaded =>
        /\ Len(validations) = Len(files)
        /\ \A i \in DOMAIN files :
               Held(files[i]) <=> (ZeroErrors(i) /\ ~ReplacedLater(i))
        /\ OnlyAcceptedFilesHeld
        /\ IsValidIffNoErrors

\* a load that read a tree with warnings and no error, which is held, and a tree
\* with an error, which is not
C19_Witness ==
    /\ Loaded
    /\ \E i \in DOMAIN files :
           /\ ZeroErrors(i)
           /\ Len(validations[i].warnings) > 0
           /\ validations[i].isValid
           /\ Held(files[i])
    /\ \E i \in DOMAIN files :
           /\ validations[i].outcome = "returned"
           /\ Len(validations[i].errors) > 0
           /\ ~validations[i].isValid
           /\ ~Held(files[i])

\* a load in which a later file replaced an accepted tree under the same id
C19_ReplacedReached ==
    /\ Loaded
    /\ \E i \in DOMAIN files : ZeroErrors(i) /\ ReplacedLater(i) /\ ~Held(files[i])

(***************************************************************************)
(* Structural problems of a raw tree, stated on the tree itself.           *)
(***************************************************************************)
\* the tree has no usable id
LacksId(t) == ~Truthy(Prop(t, "id"))

\* the tree has no usable title
LacksTitle(t) == ~Truthy(Prop(t, "title"))

\* the questions of the tree, none if it has no questions array
QuestionsOf(t) == IF Has(t, "questions") THEN t.questions ELSE <<>>

\* the options of every question of the tree
OptionsOf(t) ==
    UNION {IF Has(q, "options") THEN Range(q.options) ELSE {} : q \in Range(QuestionsOf(t))}

\* two questions of the tree share an id
RepeatsQuestionId(t) ==
    \E i, j \in DOMAIN QuestionsOf(t) :
        /\ i < j
        /\ Truthy(Prop(t.questions[i], "id"))
        /\ Prop(t.questions[i], "id") = Prop(t.questions[j], "id")

\* an option continues to a question the tree does not have
HasDanglingNext(t) ==
    \E o \in OptionsOf(t) :
        /\ Prop(o, "nextQuestionId") # Null
        /\ \A q \in Range(QuestionsOf(t)) : Prop(q, "id") # Prop(o, "nextQuestionId")

\* an option scores an outcome key that has no Result
ScoresUndocumentedKey(t) ==
    \E o \in OptionsOf(t) :
        /\ Has(o, "scores")
        /\ \E k \in DOMAIN o.scores :
               ~(Has(t, "results") /\ o.scores[k].tech \in DOMAIN t.results)

\* an option has no scores mapping
LacksScores(t) == \E o \in OptionsOf(t) : ~Has(o, "scores")

\* the result validate returned has an error with the code
Reports(code) == \E i \in DOMAIN validation.errors : validation.errors[i].code = code

\* C20: validate is not fail-fast: one call ends in a result that has an error
\* for every structural problem of the tree, so a tree with a basic-shape problem
\* (no id, no title) and a later-stage problem (a repeated question id, a dangling
\* nextQuestionId, a score key without a Result, an option without scores) gets
\* an error for each of them.
C20_EveryProblemReported ==
    (vpc \in {"returned", "thrown"} /\ rawTree # JsonNull) =>
        /\ validation.outcome = "returned"
        /\ LacksId(rawTree) => Reports("MISSING_TREE_ID")
        /\ LacksTitle(rawTree) => Reports("MISSING_TREE_TITLE")
        /\ RepeatsQuestionId(rawTree) => Reports("DUPLICATE_QUESTION_ID")
        /\ HasDanglingNext(rawTree) => Reports("INVALID_REFERENCE")
        /\ ScoresUndocumentedKey(rawTree) => Reports("MISSING_RESULT")
        /\ LacksScores(rawTree) => Reports("MISSING_SCORES")

\* the later-stage errors do accumulate in every result of a tree that passed the
\* basic-shape pass
C20_ReportedAfterBasicShape ==
    (vpc = "returned" /\ ~basicStructureFailed(validateBasicStructure(rawTree, <<>>))) =>
        /\ RepeatsQuestionId(rawTree) => Reports("DUPLICATE_QUESTION_ID")
        /\ HasDanglingNext(rawTree) => Reports("INVALID_REFERENCE")
        /\ ScoresUndocumentedKey(rawTree) => Reports("MISSING_RESULT")

\* validate ended without a result on a tree whose option has no scores
C20_ThrowReached ==
    vpc = "thrown" /\ validation.outcome = "threw" /\ LacksScores(rawTree)

(***************************************************************************)
(* validate called on one tree: the trees are generated from their graph   *)
(* of nextQuestionId links.                                                *)
(***************************************************************************)
\* the number of questions of a generated tree
MaxQuestions == 3

\* the ids of the questions of a generated tree, in list order
QuestionIds == <<"q1", "q2", "q3", "q4", "q5">>

\* the nextQuestionId of every option of a generated tree with n questions: the
\* entry question has two options (links[1], links[2]) and question i > 1 has one
\* (links[i + 1]). A nextQuestionId is null, the id of a question, the id "q9" of
\* no question and, on the second option of the entry question, also the empty
\* string or absent
LinkLists(n) ==
    LET Targets(i) ==
            IF i = 1
            THEN {Null, "q9"} \cup {QuestionIds[j] : j \in 1..n}
            ELSE {Null, "q9", "q1", QuestionIds[i], QuestionIds[IF i = n THEN 2 ELSE i + 1]}
        Allowed(k) ==
            IF k = 1 THEN Targets(1)
            ELSE IF k = 2 THEN Targets(1) \cup {"", Undefined}
            ELSE Targets(k - 1)
    IN  {links \in [1..(n + 1) -> Targets(1) \cup {"", Undefined}] :
            \A k \in 1..(n + 1) : links[k] \in Allowed(k)}

\* what else a generated tree may have: a score key without a Result, an option
\* without scores, both, or no title
TreeShapes == {"sound", "undocumented", "noScores", "undocumentedNoScores", "untitled"}

\* the tree with n questions, these links and this shape
GraphTree(n, links, shape) ==
    LET First ==
            RawOption("opt1", links[1],
                      <<Entry(IF shape \in {"undocumented", "undocumentedNoScores"}
                              THEN "Tech3" ELSE "tech1", 1)>>)
        Linked ==
            IF links[2] = Undefined
            THEN Without(RawOption("opt2", Null, <<Entry("tech2", 1)>>), "nextQuestionId")
            ELSE RawOption("opt2", links[2], <<Entry("tech2", 1)>>)
        Second ==
            IF shape \in {"noScores", "undocumentedNoScores"}
            THEN Without(Linked, "scores")
            ELSE Linked
        Questions ==
            [i \in 1..n |->
                IF i = 1
                THEN RawQuestion("q1", <<First, Second>>)
                ELSE RawQuestion(QuestionIds[i],
                                 <<RawOption("opt1", links[i + 1], <<Entry("tech1", 1)>>)>>)]
        Titled == RawTree("tree-a", Questions, FullResults({"tech1", "tech2"}))
    IN  IF shape = "untitled" THEN Without(Titled, "title") ELSE Titled

\* treeValidator.validate(tree) called on a generated tree: nothing pushed yet, no
\* load under way and no call of calculate
InitValidate ==
    /\ \E n \in 1..MaxQuestions :
           \E links \in LinkLists(n), shape \in TreeShapes :
               rawTree = GraphTree(n, links, shape)
    /\ vpc = "validateBasicStructure"
    /\ errors = <<>>
    /\ warnings = <<>>
    /\ validation = NoValidation
    /\ files = <<>>
    /\ trees = <<>>
    /\ fileIndex = 1
    /\ svcPc = "idle"
    /\ response = NoResponse
    /\ validations = <<>>
    /\ CalculatorIdle
    /\ PageIdle
    /\ StoreIdle

NextValidate ==
    \/ ValidateBasicStructure
    \/ ValidateQuestions
    \/ ValidateReferences
    \/ ValidateReachability
    \/ ValidateResults
    \/ ValidateScoreBalance

SpecValidate == InitValidate /\ [][NextValidate]_vars

(***************************************************************************)
(* The link graph of a raw tree, stated on the tree itself.                *)
(***************************************************************************)
\* the call of validate has ended
ValidateEnded == vpc \in {"returned", "thrown"}

\* the tree has an id, a title, a questions array that is not empty and results
PassesBasicShape(t) ==
    /\ ~LacksId(t)
    /\ ~LacksTitle(t)
    /\ Has(t, "questions")
    /\ Len(t.questions) > 0
    /\ Has(t, "results")

\* the ids of the questions of the tree
IdsOf(t) == {Prop(q, "id") : q \in Range(QuestionsOf(t))}

\* option k of question i is not terminal and names no question of the tree
Dangles(t, i, k) ==
    LET next == Prop(t.questions[i].options[k], "nextQuestionId")
    IN  next # Null /\ next \notin IdsOf(t)

\* option k of question i names its own question
PointsToOwner(t, i, k) ==
    LET next == Prop(t.questions[i].options[k], "nextQuestionId")
    IN  next # Null /\ next = Prop(t.questions[i], "id")

\* the pairs <<i, k>> of the options of the tree
OptionPositions(t) ==
    UNION {{<<i, k>> : k \in DOMAIN t.questions[i].options} :
              i \in {j \in DOMAIN QuestionsOf(t) : Has(t.questions[j], "options")}}

\* the result validate returned has an error with the code at the location
ReportsAt(code, location) ==
    \E j \in DOMAIN validation.errors :
        validation.errors[j].code = code /\ validation.errors[j].location = location

\* validate returned a result that is not valid
ReturnedInvalid == validation.outcome = "returned" /\ ~validation.isValid

\* C21: for every tree that passes the basic-shape check, validate reports an
\* error (isValid false) for each option whose non-terminal nextQuestionId names
\* no question of the tree, and for each option whose nextQuestionId is the id of
\* its own question; a tree in which every option is terminal or points to
\* another existing question gets neither of the two errors.
C21_ReferenceErrorsReported ==
    (ValidateEnded /\ PassesBasicShape(rawTree)) =>
        /\ \A pos \in OptionPositions(rawTree) :
               LET location == optionLocation(questionLocation(pos[1]), pos[2])
               IN  /\ Dangles(rawTree, pos[1], pos[2]) =>
                          ReturnedInvalid /\ ReportsAt("INVALID_REFERENCE", location)
                   /\ PointsToOwner(rawTree, pos[1], pos[2]) =>
                          ReturnedInvalid /\ ReportsAt("CIRCULAR_REFERENCE", location)
        /\ (\A pos \in OptionPositions(rawTree) :
                /\ ~Dangles(rawTree, pos[1], pos[2])
                /\ ~PointsToOwner(rawTree, pos[1], pos[2]))
           => \A j \in DOMAIN validation.errors :
                  \/ validation.errors[j].code \notin {"INVALID_REFERENCE", "CIRCULAR_REFERENCE"}
                  \/ validation.errors[j].location = NoLocation

\* what does hold: the two errors are in every result that validate returns for
\* a tree that passes the basic-shape check
C21_ReportedWhenReturned ==
    (vpc = "returned" /\ PassesBasicShape(rawTree)) =>
        \A pos \in OptionPositions(rawTree) :
            LET location == optionLocation(questionLocation(pos[1]), pos[2])
            IN  /\ Dangles(rawTree, pos[1], pos[2]) <=>
                       ReportsAt("INVALID_REFERENCE", location)
                /\ PointsToOwner(rawTree, pos[1], pos[2]) <=>
                       ReportsAt("CIRCULAR_REFERENCE", location)

\* the outcome keys that option k of question i scores and the tree has no Result for
UndocumentedKeys(t, i, k) ==
    LET option == t.questions[i].options[k]
    IN  IF Has(option, "scores")
        THEN {option.scores[j].tech : j \in DOMAIN option.scores} \ DOMAIN t.results
        ELSE {}

\* C22: for every tree that passes the basic-shape check, validate reports an
\* error (isValid false) for each outcome key that an option scores and that has
\* no entry in results; so in every tree validate accepts, every outcome key an
\* option scores has a Result.
C22_UndocumentedKeysReported ==
    (ValidateEnded /\ PassesBasicShape(rawTree)) =>
        /\ \A pos \in OptionPositions(rawTree) :
               \A tech \in UndocumentedKeys(rawTree, pos[1], pos[2]) :
                   /\ ReturnedInvalid
                   /\ ReportsAt("MISSING_RESULT",
                                optionLocation(questionLocation(pos[1]), pos[2])
                                \o <<"scores", tech>>)
        /\ (validation.outcome = "returned" /\ validation.isValid) =>
               \A pos \in OptionPositions(rawTree) :
                   UndocumentedKeys(rawTree, pos[1], pos[2]) = {}

\* what does hold: the error is in every result that validate returns for a tree
\* that passes the basic-shape check, and every accepted tree has its Results
C22_ReportedWhenReturned ==
    (vpc = "returned" /\ PassesBasicShape(rawTree)) =>
        /\ \A pos \in OptionPositions(rawTree) :
               \A tech \in UndocumentedKeys(rawTree, pos[1], pos[2]) :
                   ReportsAt("MISSING_RESULT",
                             optionLocation(questionLocation(pos[1]), pos[2])
                             \o <<"scores", tech>>)
        /\ validation.isValid =>
               \A pos \in OptionPositions(rawTree) :
                   UndocumentedKeys(rawTree, pos[1], pos[2]) = {}

\* validate threw on a tree with a score key that has no Result
C22_ThrowReached ==
    /\ vpc = "thrown"
    /\ \E pos \in OptionPositions(rawTree) : UndocumentedKeys(rawTree, pos[1], pos[2]) # {}

\* the questions that the options of the questions in ids continue to
Successors(t, ids) ==
    {next \in IdsOf(t) :
        \E pos \in OptionPositions(t) :
            /\ Prop(t.questions[pos[1]], "id") \in ids
            /\ Prop(t.questions[pos[1]].options[pos[2]], "nextQuestionId") = next
            /\ next # Null}

RECURSIVE ReachableFrom(_, _)
\* the questions reached from those in ids by following links, ids included
ReachableFrom(t, ids) ==
    LET more == ids \cup Successors(t, ids)
    IN  IF more = ids THEN ids ELSE ReachableFrom(t, more)

\* the questions reached from the entry question, the first of the list
ReachableIds(t) == ReachableFrom(t, {Prop(t.questions[1], "id")})

\* following links from the question leads back to it
OnCycle(t, id) == id \in ReachableFrom(t, Successors(t, {id}))

\* the graph reachable from the entry question contains a cycle
HasReachableCycle(t) == \E id \in ReachableIds(t) : OnCycle(t, id)

\* the result validate returned warns that the question is unreachable
WarnsUnreachable(id) ==
    \E j \in DOMAIN validation.warnings :
        /\ validation.warnings[j].code = "UNREACHABLE_QUESTION"
        /\ validation.warnings[j].message = <<id>>

\* C23: validate emits an 'unreachable' warning for a question if and only if
\* the question cannot be reached from the entry question by following
\* non-terminal nextQuestionId links; unreachability is a warning and never an
\* error, so it does not make isValid false.
C23_WarnedIffUnreachable ==
    ValidateEnded =>
        /\ \A id \in IdsOf(rawTree) :
               WarnsUnreachable(id) <=> id \notin ReachableIds(rawTree)
        /\ \A j \in DOMAIN validation.errors :
               validation.errors[j].code # "UNREACHABLE_QUESTION"
        /\ validation.outcome = "returned" =>
               (validation.isValid <=> validation.errors = <<>>)

\* what does hold: the same, of every result that validate returns for a tree
\* that passes the basic-shape check
C23_WarnedWhenReturned ==
    (vpc = "returned" /\ PassesBasicShape(rawTree)) =>
        /\ \A id \in IdsOf(rawTree) :
               WarnsUnreachable(id) <=> id \notin ReachableIds(rawTree)
        /\ \A j \in DOMAIN validation.errors :
               validation.errors[j].code # "UNREACHABLE_QUESTION"
        /\ validation.isValid <=> validation.errors = <<>>

\* validate returned a valid result with an 'unreachable' warning in it
C23_ValidWithWarningReached ==
    /\ vpc = "returned"
    /\ validation.isValid
    /\ \E id \in IdsOf(rawTree) : WarnsUnreachable(id)

\* the reachability pass has just run
ReachabilityRan == vpc = "validateResults"

\* the errors hold a circular-reference error of the traversal, which has no
\* location; the self-reference error of validateReferences has one
TraversalReportsCycle ==
    \E j \in DOMAIN errors :
        errors[j].code = "CIRCULAR_REFERENCE" /\ errors[j].location = NoLocation

\* a question reachable from the entry question along two different options
SharedDescendant(t) ==
    \E a, b \in OptionPositions(t) :
        /\ a # b
        /\ Prop(t.questions[a[1]], "id") \in ReachableIds(t)
        /\ Prop(t.questions[b[1]], "id") \in ReachableIds(t)
        /\ Prop(t.questions[a[1]].options[a[2]], "nextQuestionId") \in IdsOf(t)
        /\ Prop(t.questions[a[1]].options[a[2]], "nextQuestionId") =
               Prop(t.questions[b[1]].options[b[2]], "nextQuestionId")

\* C24: the reachability pass reports a circular-reference error if and only if
\* the graph reachable from the entry question contains a cycle: a question met
\* again while it is on the current traversal path is an error, a question met
\* again along another, finished branch (a shared descendant) is not.
C24_CircularIffReachableCycle ==
    ReachabilityRan => (TraversalReportsCycle <=> HasReachableCycle(rawTree))

\* the pass ran on a tree with a shared descendant and no cycle, and reported none
C24_Witness ==
    /\ ReachabilityRan
    /\ SharedDescendant(rawTree)
    /\ ~HasReachableCycle(rawTree)
    /\ ~TraversalReportsCycle

\* the pass ran on a tree with a cycle of two or more questions and reported it
C24_CycleReached ==
    /\ ReachabilityRan
    /\ TraversalReportsCycle
    /\ \A pos \in OptionPositions(rawTree) : ~PointsToOwner(rawTree, pos[1], pos[2])

(***************************************************************************)
(* calculate called on a tree the service holds: POST /recommend takes the *)
(* tree from getTree, and loadTrees stored it because validate accepted it.*)
(***************************************************************************)
\* recommendationEngine.calculate(tree, body.answers) on an accepted generated tree
InitServed ==
    /\ \E n \in 1..MaxQuestions :
           \E links \in LinkLists(n), shape \in TreeShapes :
               /\ ~blocksLoading(validate(GraphTree(n, links, shape)))
               /\ tree = GraphTree(n, links, shape)
    /\ answers \in AnswerLists
    /\ pc = "validateAnswerPath"
    /\ scores = <<>>
    /\ winner = Undefined
    /\ tieBreaker = NoTieBreaker
    /\ confidence = Undefined
    /\ error = NoError
    /\ result = NoResult
    /\ LoaderIdle
    /\ PageIdle
    /\ StoreIdle

SpecServed == InitServed /\ [][Next]_vars

(***************************************************************************)
(* Walks through a tree the service holds.                                 *)
(***************************************************************************)
RECURSIVE WalksEnd(_, _, _)
\* every walk that enters the question id after the questions in seen goes on
\* through questions not yet visited until it chooses a terminal option
WalksEnd(t, id, seen) ==
    /\ id \notin seen
    /\ QuestionExists(t, id)
    /\ QuestionNamed(t, id).options # <<>>
    /\ \A o \in Range(QuestionNamed(t, id).options) :
           \/ Prop(o, "nextQuestionId") = Null
           \/ WalksEnd(t, Prop(o, "nextQuestionId"), seen \cup {id})

\* the shorter of the two lengths
AtMost(a, b) == IF a < b THEN a ELSE b

\* C25: in every tree validate accepts, every walk from the entry question along
\* the nextQuestionId of a chosen option visits no question twice and reaches a
\* terminal option after at most as many answers as the tree has questions; so
\* calculate examines no more answers than the tree has questions (no answer
\* beyond that position is validated, and none is scored), and every legal walk
\* can be completed.
C25_AcceptedWalksEnd ==
    /\ WalksEnd(tree, EntryQuestionId(tree), {})
    /\ \A i \in 1..Len(answers) : Examined(tree, answers, i) => i <= Len(tree.questions)
    /\ Scored =>
           scores = calculateScores(tree, SubSeq(answers, 1,
                                                 AtMost(Len(answers), Len(tree.questions))))

\* what does hold: the walks of an accepted tree end, and path validation
\* examines no more answers than the tree has questions
C25_WalksEndAndValidationBounded ==
    /\ WalksEnd(tree, EntryQuestionId(tree), {})
    /\ \A i \in 1..Len(answers) : Examined(tree, answers, i) => i <= Len(tree.questions)

\* C26: for every tree validate accepts and every answer list, calculate never
\* fails with QuestionNotFound nor with the untyped 'Result not found' error: it
\* returns a result or throws MissingAnswers, InvalidAnswerPath, OptionNotFound
\* or NoRecommendation.
C26_AcceptedTreeOutcomes ==
    /\ pc = "thrown" =>
           error.code \in {MISSING_ANSWERS, INVALID_ANSWER_PATH, OPTION_NOT_FOUND,
                           NO_RECOMMENDATION}
    /\ pc = "returned" => result.result = tree.results[result.recommendation]

\* calculate threw InvalidAnswerPath on an accepted tree for a first answer that
\* names a question the tree does not have
C26_Witness ==
    /\ Threw(INVALID_ANSWER_PATH)
    /\ ~QuestionExists(tree, answers[1].questionId)

(***************************************************************************)
(* TreePage, the questionnaire page (tree/[id]/page.tsx), on a tree the    *)
(* service holds. The visitor acts on the page as rendered after the       *)
(* previous click; a terminal selection posts the answers to /recommend,   *)
(* where calculate runs on them.                                           *)
(***************************************************************************)
\* the page has fetched the tree and shows its first question (lines 18-23)
InitPage ==
    /\ \E n \in 1..MaxQuestions :
           \E links \in LinkLists(n), shape \in TreeShapes :
               /\ ~blocksLoading(validate(GraphTree(n, links, shape)))
               /\ tree = GraphTree(n, links, shape)
    /\ currentQuestionIndex = 0
    /\ pageAnswers = <<>>
    /\ pagePc = "question"
    /\ answers = <<>>
    /\ pc = "idle"
    /\ scores = <<>>
    /\ winner = Undefined
    /\ tieBreaker = NoTieBreaker
    /\ confidence = Undefined
    /\ error = NoError
    /\ result = NoResult
    /\ LoaderIdle
    /\ StoreIdle

\* handleSelectOption(optionId), lines 57-116; the page records at most
\* MaxAnswers answers
HandleSelectOption(optionId) ==
    /\ pagePc = "question"
    /\ Len(pageAnswers) < MaxAnswers
    /\ LET currentQuestion == tree.questions[currentQuestionIndex + 1]
           matches == {k \in DOMAIN currentQuestion.options :
                          currentQuestion.options[k].id = optionId}
           selectedOption ==
               currentQuestion.options[CHOOSE k \in matches : \A m \in matches : k <= m]
           updatedAnswers == Append(pageAnswers, Answer(currentQuestion.id, optionId))
           next == Prop(selectedOption, "nextQuestionId")
           found == {i \in DOMAIN tree.questions : tree.questions[i].id = next}
           nextIndex == (CHOOSE i \in found : \A j \in found : i <= j) - 1
       IN  /\ matches # {}
           /\ pageAnswers' = updatedAnswers
           /\ IF next = Null
              THEN /\ pagePc' = "submitting"
                   /\ answers' = updatedAnswers
                   /\ pc' = "validateAnswerPath"
                   /\ UNCHANGED currentQuestionIndex
              ELSE /\ currentQuestionIndex' =
                          IF Truthy(next) /\ found # {} THEN nextIndex ELSE currentQuestionIndex
                   /\ UNCHANGED <<pagePc, answers, pc>>
    /\ UNCHANGED <<tree, scores, winner, tieBreaker, confidence, error, result>>
    /\ UNCHANGED <<loaderVars, storeVars>>

\* handleBack(), lines 118-126
HandleBack ==
    /\ pagePc = "question"
    /\ IF currentQuestionIndex > 0
       THEN /\ currentQuestionIndex' = currentQuestionIndex - 1
            /\ pageAnswers' = SubSeq(pageAnswers, 1, Len(pageAnswers) - 1)
            /\ UNCHANGED pagePc
       ELSE /\ pagePc' = "left"
            /\ UNCHANGED <<currentQuestionIndex, pageAnswers>>
    /\ UNCHANGED <<calcVars, loaderVars, storeVars>>

NextPage ==
    \/ \E optionId \in {"opt1", "opt2"} : HandleSelectOption(optionId)
    \/ HandleBack
    \/ ValidateAnswerPath
    \/ CalculateScores
    \/ DetermineWinner
    \/ CalculateConfidence
    \/ LookupResult

SpecPage == InitPage /\ [][NextPage]_vars

\* the question on display
DisplayedQuestionId == tree.questions[currentQuestionIndex + 1].id

\* C27: after any sequence of option selections and Back presses the answer
\* list the page holds is a legal walk from the entry question (the first answer
\* is for the entry question, each later one for the question the previous
\* chosen option points to) and the question on display is the one the walk
\* leads to; so the list posted on a terminal selection passes the answer-path
\* validation of calculate.
C27_PageHoldsLegalWalk ==
    /\ pagePc = "question" =>
           /\ \A i \in 1..Len(pageAnswers) : StepsOn(tree, pageAnswers, i)
           /\ DisplayedQuestionId =
                  IF pageAnswers = <<>>
                  THEN EntryQuestionId(tree)
                  ELSE ChosenOption(tree, pageAnswers[Len(pageAnswers)]).nextQuestionId
    /\ pagePc = "submitting" =>
           /\ LegalWalk(tree, pageAnswers, Len(pageAnswers))
           /\ answers = pageAnswers
           /\ ~(pc = "thrown" /\ error.code \in PathErrorCodes \cup {MISSING_ANSWERS})

\* the page posted a one-answer list that does not start at the entry question,
\* and calculate threw InvalidAnswerPath
C27_BackendRejectedReached ==
    /\ pagePc = "submitting"
    /\ Threw(INVALID_ANSWER_PATH)
    /\ Len(pageAnswers) = 1

(***************************************************************************)
(* DecisionTreeService.saveDecision and getResultBySlug on the             *)
(* SavedDecision collection. A call runs up to its next await in one step, *)
(* and the calls interleave at their awaits.                               *)
(***************************************************************************)
\* the number of calls of one run
MaxCalls == 2

\* const maxAttempts = 5
maxAttempts == 5

\* what nanoid(10) returns
CandidateSlugs == {"slugA", "slugB"}

\* ErrorCode.RESULT_NOT_FOUND
RESULT_NOT_FOUND == "RESULT_NOT_FOUND"

\* a document of the collection; request stands for the decision saved (treeId,
\* answers, result): the position of the call that saved it, 0 before the run
SavedDecision(slug, request) ==
    [shareableSlug |-> slug, viewCount |-> 0, request |-> request]

\* SavedDecision.findOne({ shareableSlug: slug }): the document, or null as a
\* document with shareableSlug null
findOne(docs, slug) ==
    IF \E k \in DOMAIN docs : docs[k].shareableSlug = slug
    THEN docs[CHOOSE k \in DOMAIN docs : docs[k].shareableSlug = slug]
    ELSE SavedDecision(Null, 0)

updateOne_Unchanged(docs, slug) == docs

\* SavedDecision.updateOne({ shareableSlug: slug }, { $inc: { viewCount: 1 } })
updateOne(docs, slug) ==
    [k \in DOMAIN docs |->
        IF docs[k].shareableSlug = slug
        THEN [docs[k] EXCEPT !.viewCount = @ + 1]
        ELSE docs[k]]

duplicateKey_NoIndex(docs, slug) == FALSE

\* shareableSlug is unique: true, so saving a second document with the slug fails
duplicateKey(docs, slug) == \E k \in DOMAIN docs : docs[k].shareableSlug = slug

\* a call that has run up to its first await
Call(op, slug) ==
    [op |-> op, pc |-> "findOne", slug |-> slug, attempts |-> 0, lookups |-> 0,
     read |-> 0, viewCount |-> 0, code |-> NoCode]

\* the collection holds some decisions saved earlier and viewed once
InitStore ==
    /\ savedDecisions \in
           LET viewed(slug) == [SavedDecision(slug, 0) EXCEPT !.viewCount = 1]
           IN  {<<>>, <<viewed("slugA")>>, <<viewed("slugA"), viewed("slugB")>>}
    /\ calls = <<>>
    /\ CalculatorIdle
    /\ LoaderIdle
    /\ PageIdle

\* saveDecision(request) up to the first findOne (lines 98-107)
SaveDecision(slug) ==
    /\ Len(calls) < MaxCalls
    /\ calls' = Append(calls, Call("saveDecision", slug))
    /\ UNCHANGED <<savedDecisions, calcVars, loaderVars, pageVars>>

\* findOne resolves: break, or a new slug and the next turn of the loop, or the
\* throw that follows the loop (lines 107-124); fresh is the new nanoid(10)
SaveFindOne(i, fresh) ==
    /\ calls[i].op = "saveDecision"
    /\ calls[i].pc = "findOne"
    /\ calls' =
           [calls EXCEPT ![i] =
               IF findOne(savedDecisions, calls[i].slug).shareableSlug = Null
               THEN [@ EXCEPT !.lookups = @ + 1, !.pc = "save"]
               ELSE [@ EXCEPT !.lookups = @ + 1,
                              !.slug = fresh,
                              !.attempts = @ + 1,
                              !.pc = IF calls[i].attempts + 1 < maxAttempts
                                     THEN "findOne" ELSE "threw"]]
    /\ UNCHANGED <<savedDecisions, calcVars, loaderVars, pageVars>>

\* new SavedDecision({...}) and document.save() (lines 127-153)
SaveDocument(i) ==
    /\ calls[i].op = "saveDecision"
    /\ calls[i].pc = "save"
    /\ IF duplicateKey(savedDecisions, calls[i].slug)
       THEN /\ calls' = [calls EXCEPT ![i].pc = "threw"]
            /\ UNCHANGED savedDecisions
       ELSE /\ calls' = [calls EXCEPT ![i].pc = "returned"]
            /\ savedDecisions' = Append(savedDecisions, SavedDecision(calls[i].slug, i))
    /\ UNCHANGED <<calcVars, loaderVars, pageVars>>

\* getResultBySlug(slug) up to its findOne (lines 159-161)
GetResultBySlug(slug) ==
    /\ Len(calls) < MaxCalls
    /\ calls' = Append(calls, Call("getResultBySlug", slug))
    /\ UNCHANGED <<savedDecisions, calcVars, loaderVars, pageVars>>

\* findOne resolves: throwError.resultNotFound, or on to updateOne (lines 161-168)
GetFindOne(i) ==
    /\ calls[i].op = "getResultBySlug"
    /\ calls[i].pc = "findOne"
    /\ LET existing == findOne(savedDecisions, calls[i].slug)
       IN  calls' =
               [calls EXCEPT ![i] =
                   IF existing.shareableSlug = Null
                   THEN [@ EXCEPT !.pc = "threw", !.code = RESULT_NOT_FOUND]
                   ELSE [@ EXCEPT !.pc = "updateOne", !.read = existing.viewCount]]
    /\ UNCHANGED <<savedDecisions, calcVars, loaderVars, pageVars>>

\* updateOne resolves and the call returns result.viewCount + 1 (lines 168-179)
GetUpdateOne(i) ==
    /\ calls[i].op = "getResultBySlug"
    /\ calls[i].pc = "updateOne"
    /\ savedDecisions' = updateOne(savedDecisions, calls[i].slug)
    /\ calls' = [calls EXCEPT ![i].pc = "returned", ![i].viewCount = calls[i].read + 1]
    /\ UNCHANGED <<calcVars, loaderVars, pageVars>>

NextStore ==
    \/ \E slug \in CandidateSlugs : SaveDecision(slug)
    \/ \E i \in DOMAIN calls, fresh \in CandidateSlugs : SaveFindOne(i, fresh)
    \/ \E i \in DOMAIN calls : SaveDocument(i)
    \/ \E slug \in CandidateSlugs : GetResultBySlug(slug)
    \/ \E i \in DOMAIN calls : GetFindOne(i)
    \/ \E i \in DOMAIN calls : GetUpdateOne(i)

SpecStore == InitStore /\ [][NextStore]_vars

(***************************************************************************)
(* Claims about the saved decisions.                                       *)
(***************************************************************************)
\* the viewCount a stored decision had when the run began, or when it was saved
InitialViewCount(doc) == IF doc.request = 0 THEN 1 ELSE 0

\* the getResultBySlug calls for slug that have completed
CompletedViews(slug) ==
    {i \in DOMAIN calls : /\ calls[i].op = "getResultBySlug"
                          /\ calls[i].pc = "returned"
                          /\ calls[i].slug = slug}

\* the stored viewCount of the decision saved under slug
StoredViewCount(slug) == findOne(savedDecisions, slug).viewCount

\* C28: under any interleaving of getResultBySlug calls, the stored viewCount of
\* a decision is its initial value plus the number of completed calls that
\* found it, and a call for an unknown slug fails with RESULT_NOT_FOUND
\* (so it is not among the completed calls and no viewCount counts it).
C28_ViewCountLosesNoUpdate ==
    /\ \A k \in DOMAIN savedDecisions :
           savedDecisions[k].viewCount =
               InitialViewCount(savedDecisions[k])
                   + Cardinality(CompletedViews(savedDecisions[k].shareableSlug))
    /\ \A i \in DOMAIN calls :
           (calls[i].op = "getResultBySlug" /\ calls[i].pc = "threw")
               => calls[i].code = RESULT_NOT_FOUND

\* two calls for one slug read the same viewCount and both completed
C28_Witness ==
    \E i, j \in DOMAIN calls :
        /\ i # j
        /\ i \in CompletedViews(calls[i].slug)
        /\ j \in CompletedViews(calls[i].slug)
        /\ calls[i].read = calls[j].read
        /\ StoredViewCount(calls[i].slug) = calls[i].read + 2

\* a call for a slug no decision is saved under has failed, the collection as it was
C28_UnknownSlugReached ==
    \E i \in DOMAIN calls :
        /\ calls[i].op = "getResultBySlug"
        /\ calls[i].code = RESULT_NOT_FOUND
        /\ savedDecisions = <<>>

\* C29: the viewCount a getResultBySlug call returns equals the stored viewCount
\* of the decision right after the call's own increment, whatever other calls
\* for the slug ran between its read and its increment.
C29_ReturnsIncrementedCount ==
    [][\A i \in DOMAIN calls :
           (calls[i].pc = "updateOne" /\ calls'[i].pc = "returned")
               => calls'[i].viewCount = StoredViewCount(calls[i].slug)']_vars

\* two completed calls for one slug returned the same count
C29_SameCountReturnedTwice ==
    \E i, j \in DOMAIN calls :
        /\ i # j
        /\ i \in CompletedViews(calls[i].slug)
        /\ j \in CompletedViews(calls[i].slug)
        /\ calls[i].viewCount = calls[j].viewCount

\* a decision is stored under slug
SlugTaken(slug) == findOne(savedDecisions, slug).shareableSlug # Null

\* the saveDecision calls
SaveCalls == {i \in DOMAIN calls : calls[i].op = "saveDecision"}

C30_RetriesExhaustedReached ==
    \E i \in SaveCalls : calls[i].pc = "threw" /\ calls[i].lookups = 5

====
